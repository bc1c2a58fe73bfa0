--------------------------- MODULE UnitWriter_proof ---------------------------
(***************************************************************************)
(* What is written for a unit without flags reads back as that unit, for   *)
(* any number and exponents, any widths of the fields and any tables whose *)
(* names are read as the units that they are the names of.                 *)
(***************************************************************************)
EXTENDS UnitWriter, UnitData_proof, FiniteSetTheorems, SequenceTheorems

USE HalfAssumption, SecondAssumption

(***************************************************************************)
(* Reading a text is a product in a group: the units without flags are a   *)
(* commutative group, whatever the widths of the fields, as overflow is    *)
(* reduction modulo the size of the field.  With flags they are not: a     *)
(* division by a unit with the e_flag does not undo the product with it,   *)
(* and nothing is claimed of them here.                                    *)
(***************************************************************************)

(***************************************************************************)
(* Multipliers.                                                            *)
(***************************************************************************)
Normal(neg, ten, sixty) ==
  [class |-> "normal", neg |-> neg, ten |-> ten, sixty |-> sixty]

\* The sign of a product and of a power.
Differ(a, b) == a # b
IfOdd(a, k) == a /\ ~IsEven(k)

\* A normal multiplier is its sign and its powers.
LEMMA NormalShape ==
  ASSUME NEW m \in NormalMult
  PROVE  /\ m = Normal(m.neg, m.ten, m.sixty) /\ IsNormal(m)
         /\ m.neg \in BOOLEAN /\ m.ten \in Int /\ m.sixty \in Int
BY DEF NormalMult, Normal, IsNormal

\* What is built of a sign and two powers is an ordinary multiplier.
LEMMA NormalTyped ==
  ASSUME NEW neg \in BOOLEAN, NEW ten \in Int, NEW sixty \in Int
  PROVE  Normal(neg, ten, sixty) \in NormalMult
BY DEF Normal, NormalMult

\* Signs.
LEMMA SignLaws ==
  /\ \A a, b \in BOOLEAN : Differ(a, b) \in BOOLEAN /\ Differ(a, b) = Differ(b, a)
  /\ \A a, b, c \in BOOLEAN : Differ(Differ(a, b), c) = Differ(a, Differ(b, c))
  /\ \A a \in BOOLEAN : Differ(FALSE, a) = a /\ Differ(a, a) = FALSE
BY DEF Differ

\* A sign raised to a power: what it is, and how it distributes.
LEMMA PowerSignLaws ==
  ASSUME NEW j \in Int, NEW k \in Int
  PROVE  /\ \A a \in BOOLEAN : IfOdd(a, k) \in BOOLEAN /\ IfOdd(a, 1) = a
                               /\ IfOdd(a, -1) = a
         /\ \A a, b \in BOOLEAN :
              IfOdd(Differ(a, b), k) = Differ(IfOdd(a, k), IfOdd(b, k))
         /\ \A a \in BOOLEAN : IfOdd(IfOdd(a, j), k) = IfOdd(a, j * k)
<1>1. ~IsEven(1) /\ ~IsEven(-1)
  BY DEF IsEven
<1>2. IsEven(k) \in BOOLEAN
  BY DEF IsEven
<1>3. IsEven(j * k) <=> IsEven(j) \/ IsEven(k)
  <2>1. ASSUME NEW i \in Int, NEW l \in Int, IsEven(i) PROVE IsEven(i * l)
    <3>1. PICK h \in Int : i = 2 * h
      BY <2>1 DEF IsEven
    <3>2. i * l = 2 * (h * l) /\ h * l \in Int
      BY <3>1
    <3>3. \A g \in Int : (2 * g) % 2 = 0
      OBVIOUS
    <3> QED  BY <3>2, <3>3 DEF IsEven
  <2>2. ASSUME ~IsEven(j), ~IsEven(k) PROVE ~IsEven(j * k)
    <3>1. PICK g \in Int : j = 2 * g + 1
      BY <2>2 DEF IsEven
    <3>2. PICK h \in Int : k = 2 * h + 1
      BY <2>2 DEF IsEven
    <3>3. j * k = 2 * (2 * (g * h) + g + h) + 1 /\ 2 * (g * h) + g + h \in Int
      BY <3>1, <3>2
    <3>4. \A i \in Int : (2 * i + 1) % 2 = 1
      OBVIOUS
    <3> QED  BY <3>3, <3>4 DEF IsEven
  <2>3. j * k = k * j
    OBVIOUS
  <2> QED  BY <2>1, <2>2, <2>3
<1> HIDE DEF IsEven
<1>4. \A a \in BOOLEAN : IfOdd(a, k) \in BOOLEAN /\ IfOdd(a, 1) = a /\ IfOdd(a, -1) = a
  BY <1>1, <1>2 DEF IfOdd
<1>5. \A a, b \in BOOLEAN : IfOdd(Differ(a, b), k) = Differ(IfOdd(a, k), IfOdd(b, k))
  BY <1>2 DEF IfOdd, Differ
<1>6. \A a \in BOOLEAN : IfOdd(IfOdd(a, j), k) = IfOdd(a, j * k)
  BY <1>3 DEF IfOdd
<1> QED  BY <1>4, <1>5, <1>6

\* The operations on multipliers.
LEMMA MultShape ==
  /\ One = Normal(FALSE, 0, 0)
  /\ \A m, n \in NormalMult :
       MultTimes(m, n) = Normal(Differ(m.neg, n.neg), m.ten + n.ten, m.sixty + n.sixty)
<1>1. One = Normal(FALSE, 0, 0)
  BY DEF One, number, Normal
<1>2. \A m, n \in NormalMult :
        MultTimes(m, n) = Normal(Differ(m.neg, n.neg), m.ten + n.ten, m.sixty + n.sixty)
  BY NormalShape DEF MultTimes, number, Normal, Differ
<1> QED  BY <1>1, <1>2

\* The power of a multiplier, part by part.
LEMMA PowShape ==
  ASSUME NEW m \in NormalMult, NEW k \in Int
  PROVE  MultPow(m, k) = Normal(IfOdd(m.neg, k), m.ten * k, m.sixty * k)
BY DEF MultPow, number, Normal, IfOdd

\* The inverse of a multiplier, part by part.
LEMMA InvShape ==
  ASSUME NEW m \in NormalMult
  PROVE  MultInv(m) = Normal(m.neg, -m.ten, -m.sixty)
<1>1. MultInv(m) = Normal(IfOdd(m.neg, -1), m.ten * (-1), m.sixty * (-1))
  BY PowShape DEF MultInv
<1>2. m.neg \in BOOLEAN /\ m.ten * (-1) = -m.ten /\ m.sixty * (-1) = -m.sixty
  BY NormalShape
<1>3. IfOdd(m.neg, -1) = m.neg
  BY <1>2, PowerSignLaws
<1> QED  BY <1>1, <1>2, <1>3

\* They give normal multipliers.
LEMMA MultTyped ==
  /\ One \in NormalMult
  /\ \A m, n \in NormalMult : MultTimes(m, n) \in NormalMult
  /\ \A m \in NormalMult : MultInv(m) \in NormalMult
  /\ \A m \in NormalMult, k \in Int : MultPow(m, k) \in NormalMult
<1>1. One \in NormalMult
  BY DEF One, number, NormalMult
<1>2. ASSUME NEW m \in NormalMult, NEW n \in NormalMult
      PROVE  MultTimes(m, n) \in NormalMult
  <2>1. /\ m.neg \in BOOLEAN /\ n.neg \in BOOLEAN
        /\ m.ten + n.ten \in Int /\ m.sixty + n.sixty \in Int
    BY NormalShape
  <2>2. Differ(m.neg, n.neg) \in BOOLEAN
    BY <2>1, SignLaws
  <2> QED  BY <2>1, <2>2, MultShape, NormalTyped
<1>3. ASSUME NEW m \in NormalMult PROVE MultInv(m) \in NormalMult
  <2>1. m.neg \in BOOLEAN /\ -m.ten \in Int /\ -m.sixty \in Int
    BY NormalShape
  <2> QED  BY <2>1, InvShape, NormalTyped
<1>4. ASSUME NEW m \in NormalMult, NEW k \in Int PROVE MultPow(m, k) \in NormalMult
  <2>1. /\ m.neg \in BOOLEAN /\ m.ten * k \in Int /\ m.sixty * k \in Int
    BY NormalShape
  <2>2. IfOdd(m.neg, k) \in BOOLEAN
    BY <2>1, PowerSignLaws
  <2> QED  BY <2>1, <2>2, PowShape, NormalTyped
<1> QED  BY <1>1, <1>2, <1>3, <1>4

\* Multipliers are a commutative group.
LEMMA MultLaws ==
  ASSUME NEW l \in NormalMult, NEW m \in NormalMult, NEW n \in NormalMult
  PROVE  /\ MultTimes(MultTimes(l, m), n) = MultTimes(l, MultTimes(m, n))
         /\ MultTimes(m, n) = MultTimes(n, m)
         /\ MultTimes(One, m) = m
         /\ MultTimes(m, MultInv(m)) = One
<1>1. /\ l.neg \in BOOLEAN /\ l.ten \in Int /\ l.sixty \in Int
      /\ m.neg \in BOOLEAN /\ m.ten \in Int /\ m.sixty \in Int
      /\ n.neg \in BOOLEAN /\ n.ten \in Int /\ n.sixty \in Int
  BY NormalShape
<1>3. /\ MultTimes(l, m) \in NormalMult /\ MultTimes(m, n) \in NormalMult
      /\ MultInv(m) \in NormalMult /\ One \in NormalMult
  BY MultTyped
<1>4. MultTimes(MultTimes(l, m), n) = MultTimes(l, MultTimes(m, n))
  <2>1. MultTimes(MultTimes(l, m), n)
          = Normal(Differ(Differ(l.neg, m.neg), n.neg), (l.ten + m.ten) + n.ten,
                   (l.sixty + m.sixty) + n.sixty)
    BY <1>3, MultShape DEF Normal
  <2>2. MultTimes(l, MultTimes(m, n))
          = Normal(Differ(l.neg, Differ(m.neg, n.neg)), l.ten + (m.ten + n.ten),
                   l.sixty + (m.sixty + n.sixty))
    BY <1>3, MultShape DEF Normal
  <2>3. /\ (l.ten + m.ten) + n.ten = l.ten + (m.ten + n.ten)
        /\ (l.sixty + m.sixty) + n.sixty = l.sixty + (m.sixty + n.sixty)
    BY <1>1
  <2> QED  BY <1>1, SignLaws, <2>1, <2>2, <2>3
<1>5. MultTimes(m, n) = MultTimes(n, m)
  <2>1. m.ten + n.ten = n.ten + m.ten /\ m.sixty + n.sixty = n.sixty + m.sixty
    BY <1>1
  <2> QED  BY <1>1, SignLaws, <2>1, MultShape
<1>6. MultTimes(One, m) = m
  <2>1. 0 + m.ten = m.ten /\ 0 + m.sixty = m.sixty
    BY <1>1
  <2>2. MultTimes(One, m) = Normal(Differ(FALSE, m.neg), 0 + m.ten, 0 + m.sixty)
    BY <1>3, MultShape DEF Normal
  <2> QED  BY <1>1, SignLaws, <2>1, <2>2, NormalShape
<1>7. MultTimes(m, MultInv(m)) = One
  <2>1. m.ten + (-m.ten) = 0 /\ m.sixty + (-m.sixty) = 0
    BY <1>1
  <2>2. MultTimes(m, MultInv(m))
          = Normal(Differ(m.neg, m.neg), m.ten + (-m.ten), m.sixty + (-m.sixty))
    BY <1>3, MultShape, InvShape DEF Normal
  <2> QED  BY <1>1, SignLaws, <2>1, <2>2, MultShape
<1> QED  BY <1>4, <1>5, <1>6, <1>7

\* Powers are repeated products.
LEMMA MultPowLaws ==
  ASSUME NEW m \in NormalMult, NEW n \in NormalMult, NEW j \in Int, NEW k \in Int
  PROVE  /\ MultPow(MultTimes(m, n), k) = MultTimes(MultPow(m, k), MultPow(n, k))
         /\ MultPow(MultPow(m, j), k) = MultPow(m, j * k)
         /\ MultPow(m, 1) = m
<1>1. /\ m.neg \in BOOLEAN /\ m.ten \in Int /\ m.sixty \in Int
      /\ n.neg \in BOOLEAN /\ n.ten \in Int /\ n.sixty \in Int
  BY NormalShape
<1>2. /\ MultTimes(m, n) \in NormalMult
      /\ MultPow(m, k) \in NormalMult /\ MultPow(n, k) \in NormalMult
      /\ MultPow(m, j) \in NormalMult
  BY MultTyped
<1>3. MultPow(MultTimes(m, n), k) = MultTimes(MultPow(m, k), MultPow(n, k))
  <2>1. MultPow(MultTimes(m, n), k)
          = Normal(IfOdd(Differ(m.neg, n.neg), k), (m.ten + n.ten) * k,
                   (m.sixty + n.sixty) * k)
    BY <1>2, MultShape, PowShape DEF Normal
  <2>2. MultTimes(MultPow(m, k), MultPow(n, k))
          = Normal(Differ(IfOdd(m.neg, k), IfOdd(n.neg, k)),
                   m.ten * k + n.ten * k, m.sixty * k + n.sixty * k)
    BY <1>2, MultShape, PowShape DEF Normal
  <2>3. /\ (m.ten + n.ten) * k = m.ten * k + n.ten * k
        /\ (m.sixty + n.sixty) * k = m.sixty * k + n.sixty * k
    BY <1>1
  <2> QED  BY <1>1, <2>1, <2>2, <2>3, PowerSignLaws
<1>4. MultPow(MultPow(m, j), k) = MultPow(m, j * k)
  <2>1. MultPow(MultPow(m, j), k)
          = Normal(IfOdd(IfOdd(m.neg, j), k), (m.ten * j) * k, (m.sixty * j) * k)
    BY <1>2, PowShape DEF Normal
  <2>2. j * k \in Int
    OBVIOUS
  <2>3. MultPow(m, j * k)
          = Normal(IfOdd(m.neg, j * k), m.ten * (j * k), m.sixty * (j * k))
    BY <2>2, PowShape
  <2>4. (m.ten * j) * k = m.ten * (j * k) /\ (m.sixty * j) * k = m.sixty * (j * k)
    BY <1>1
  <2> QED  BY <1>1, <2>1, <2>3, <2>4, PowerSignLaws
<1>5. MultPow(m, 1) = m
  <2>1. MultPow(m, 1) = Normal(IfOdd(m.neg, 1), m.ten * 1, m.sixty * 1)
    BY PowShape
  <2>2. m.ten * 1 = m.ten /\ m.sixty * 1 = m.sixty
    BY <1>1
  <2>3. IfOdd(m.neg, 1) = m.neg
    BY <1>1, PowerSignLaws
  <2> QED  BY <2>1, <2>2, <2>3, NormalShape
<1> QED  BY <1>3, <1>4, <1>5

(***************************************************************************)
(* Base units without flags: their exponents, modulo the fields' sizes.    *)
(***************************************************************************)
Exponents == {e \in [Base -> Int] : \A b \in Base : MinVal(b) <= e[b] /\ e[b] <= MaxVal(b)}
Free(e) == [exp |-> e, flags |-> {}]
Wrapped(e) == [b \in Base |-> Wrap(b, e[b])]

\* A base unit without flags is its exponents.
LEMMA FreeShape ==
  /\ \A base \in FlagFreeBase : base = Free(base.exp) /\ base.exp \in Exponents
  /\ \A e \in Exponents : Free(e) \in FlagFreeBase /\ Free(e).exp = e /\ Free(e).flags = {}
BY DEF FlagFreeBase, Exponents, Free, UnitDataType, InFields

\* Storing gives exponents that fit, and leaves those that do as they are.
LEMMA WrappedTyped ==
  /\ \A e \in [Base -> Int] : Wrapped(e) \in Exponents
  /\ \A e \in Exponents : Wrapped(e) = e /\ e \in [Base -> Int]
<1>1. ASSUME NEW e \in [Base -> Int] PROVE Wrapped(e) \in Exponents
  <2>1. \A b \in Base : /\ Wrap(b, e[b]) \in Int
                        /\ MinVal(b) <= Wrap(b, e[b]) /\ Wrap(b, e[b]) <= MaxVal(b)
    BY WrapRange
  <2> QED  BY <2>1 DEF Wrapped, Exponents
<1>2. ASSUME NEW e \in Exponents PROVE Wrapped(e) = e
  <2>1. \A b \in Base : Wrap(b, e[b]) = e[b]
    BY WrapFits DEF Exponents
  <2> QED  BY <2>1 DEF Wrapped, Exponents
<1> QED  BY <1>1, <1>2 DEF Exponents

\* The operations of unit_data.
LEMMA FreeOperations ==
  /\ \A e, f \in Exponents :
       /\ Times(Free(e), Free(f)) = Free(Wrapped([b \in Base |-> e[b] + f[b]]))
       /\ Divides(Free(e), Free(f)) = Free(Wrapped([b \in Base |-> e[b] - f[b]]))
  /\ \A e \in Exponents : Inv(Free(e)) = Free(Wrapped([b \in Base |-> -e[b]]))
  /\ \A e \in Exponents, k \in Int :
       Pow(Free(e), k) = Free(Wrapped([b \in Base |-> e[b] * k]))
<1>1. XorOn({"i_flag"}, {}, {}) = {} /\ XorOn({"i_flag", "e_flag"}, {}, {}) = {}
  BY DEF XorOn, Xor
<1>2. \A g : unit_data(g, {}) = Free(Wrapped(g))
  BY DEF unit_data, Free, Wrapped
<1>3. ASSUME NEW e \in Exponents, NEW f \in Exponents
      PROVE  Times(Free(e), Free(f)) = Free(Wrapped([b \in Base |-> e[b] + f[b]]))
  BY <1>1, <1>2, FreeShape DEF Times
<1>4. ASSUME NEW e \in Exponents, NEW f \in Exponents
      PROVE  Divides(Free(e), Free(f)) = Free(Wrapped([b \in Base |-> e[b] - f[b]]))
  BY <1>1, <1>2, FreeShape DEF Divides
<1>5. ASSUME NEW e \in Exponents
      PROVE  Inv(Free(e)) = Free(Wrapped([b \in Base |-> -e[b]]))
  BY <1>2, FreeShape DEF Inv
<1>6. ASSUME NEW e \in Exponents, NEW k \in Int
      PROVE  Pow(Free(e), k) = Free(Wrapped([b \in Base |-> e[b] * k]))
  <2>1. rootHertzModifier(Free(e), k) = 0
    BY FreeShape DEF rootHertzModifier, IsRootHertzLike, RootHertzFlags
  <2>2. PowExponents(Free(e), k) = [b \in Base |-> e[b] * k]
    BY <2>1, FreeShape DEF PowExponents, Exponents
  <2>3. PowFlags({}, k) = {}
    BY DEF PowFlags
  <2> QED  BY <2>2, <2>3, <1>2, FreeShape DEF Pow
<1> QED  BY <1>3, <1>4, <1>5, <1>6

\* The operations on base units without flags stay among them.
LEMMA BaseTyped ==
  /\ Dimensionless \in FlagFreeBase
  /\ \A u, v \in FlagFreeBase : Times(u, v) \in FlagFreeBase /\ Divides(u, v) \in FlagFreeBase
  /\ \A u \in FlagFreeBase : Inv(u) \in FlagFreeBase
  /\ \A u \in FlagFreeBase, k \in Int : Pow(u, k) \in FlagFreeBase
<1>1. Dimensionless \in FlagFreeBase
  <2>1. \A b \in Base : MinVal(b) <= 0 /\ 0 <= MaxVal(b)
    BY DEF MinVal, MaxVal
  <2> QED  BY <2>1 DEF Dimensionless, FlagFreeBase, UnitDataType, InFields
<1>2. ASSUME NEW u \in FlagFreeBase, NEW v \in FlagFreeBase
      PROVE  Times(u, v) \in FlagFreeBase /\ Divides(u, v) \in FlagFreeBase
  <2> DEFINE e == u.exp
             f == v.exp
             sum == [b \in Base |-> e[b] + f[b]]
             difference == [b \in Base |-> e[b] - f[b]]
  <2>1. u = Free(e) /\ v = Free(f) /\ e \in Exponents /\ f \in Exponents
    BY FreeShape
  <2>2. e \in [Base -> Int] /\ f \in [Base -> Int]
    BY <2>1, WrappedTyped
  <2> HIDE DEF e, f
  <2>3. sum \in [Base -> Int] /\ difference \in [Base -> Int]
    BY <2>2
  <2>4. Times(u, v) = Free(Wrapped(sum)) /\ Divides(u, v) = Free(Wrapped(difference))
    BY <2>1, FreeOperations
  <2> HIDE DEF sum, difference
  <2> QED  BY <2>3, <2>4, FreeShape, WrappedTyped
<1>3. ASSUME NEW u \in FlagFreeBase PROVE Inv(u) \in FlagFreeBase
  <2> DEFINE e == u.exp
             negated == [b \in Base |-> -e[b]]
  <2>1. u = Free(e) /\ e \in Exponents
    BY FreeShape
  <2>2. e \in [Base -> Int]
    BY <2>1, WrappedTyped
  <2> HIDE DEF e
  <2>3. negated \in [Base -> Int]
    BY <2>2
  <2>4. Inv(u) = Free(Wrapped(negated))
    BY <2>1, FreeOperations
  <2> HIDE DEF negated
  <2> QED  BY <2>3, <2>4, FreeShape, WrappedTyped
<1>4. ASSUME NEW u \in FlagFreeBase, NEW k \in Int PROVE Pow(u, k) \in FlagFreeBase
  <2> DEFINE e == u.exp
             multiple == [b \in Base |-> e[b] * k]
  <2>1. u = Free(e) /\ e \in Exponents
    BY FreeShape
  <2>2. e \in [Base -> Int]
    BY <2>1, WrappedTyped
  <2> HIDE DEF e
  <2>3. multiple \in [Base -> Int]
    BY <2>2
  <2>4. Pow(u, k) = Free(Wrapped(multiple))
    BY <2>1, FreeOperations
  <2> HIDE DEF multiple
  <2> QED  BY <2>3, <2>4, FreeShape, WrappedTyped
<1> QED  BY <1>1, <1>2, <1>3, <1>4

\* Base units without flags are a commutative group.
LEMMA BaseLaws ==
  ASSUME NEW t \in FlagFreeBase, NEW u \in FlagFreeBase, NEW v \in FlagFreeBase
  PROVE  /\ Times(Times(t, u), v) = Times(t, Times(u, v))
         /\ Times(u, v) = Times(v, u)
         /\ Times(Dimensionless, u) = u
         /\ Times(u, Inv(u)) = Dimensionless
         /\ Divides(u, v) = Times(u, Inv(v))
<1> DEFINE e == t.exp
           f == u.exp
           g == v.exp
           Sum(x, y) == [b \in Base |-> x[b] + y[b]]
           Negated(x) == [b \in Base |-> -x[b]]
<1>1. /\ t = Free(e) /\ u = Free(f) /\ v = Free(g)
      /\ e \in Exponents /\ f \in Exponents /\ g \in Exponents
  BY FreeShape
<1>2. e \in [Base -> Int] /\ f \in [Base -> Int] /\ g \in [Base -> Int]
  BY <1>1, WrappedTyped
<1> HIDE DEF e, f, g
<1>3. ASSUME NEW x \in Exponents, NEW y \in Exponents
      PROVE  /\ Times(Free(x), Free(y)) = Free(Wrapped(Sum(x, y)))
             /\ Wrapped(Sum(x, y)) \in Exponents
  <2>1. x \in [Base -> Int] /\ y \in [Base -> Int]
    BY WrappedTyped
  <2>2. Sum(x, y) \in [Base -> Int]
    BY <2>1
  <2>3. Times(Free(x), Free(y)) = Free(Wrapped(Sum(x, y)))
    BY FreeOperations
  <2> HIDE DEF Sum
  <2> QED  BY <2>2, <2>3, WrappedTyped
<1>n. ASSUME NEW x \in Exponents
      PROVE  /\ Inv(Free(x)) = Free(Wrapped(Negated(x)))
             /\ Wrapped(Negated(x)) \in Exponents
  <2>1. x \in [Base -> Int]
    BY WrappedTyped
  <2>2. Negated(x) \in [Base -> Int]
    BY <2>1
  <2>3. Inv(Free(x)) = Free(Wrapped(Negated(x)))
    BY FreeOperations
  <2> HIDE DEF Negated
  <2> QED  BY <2>2, <2>3, WrappedTyped
<1>4. Times(Times(t, u), v) = Times(t, Times(u, v))
  <2>1. /\ Times(Times(t, u), v) = Free(Wrapped(Sum(Wrapped(Sum(e, f)), g)))
        /\ Times(t, Times(u, v)) = Free(Wrapped(Sum(e, Wrapped(Sum(f, g)))))
    <3> HIDE DEF Sum
    <3> QED  BY <1>1, <1>3
  <2>2. ASSUME NEW b \in Base
        PROVE  Wrap(b, Wrap(b, e[b] + f[b]) + g[b]) = Wrap(b, e[b] + Wrap(b, f[b] + g[b]))
    <3>1. /\ e[b] \in Int /\ f[b] \in Int /\ g[b] \in Int
          /\ e[b] + f[b] \in Int /\ f[b] + g[b] \in Int
      BY <1>2
    <3>2. Wrap(b, Wrap(b, e[b] + f[b]) + g[b]) = Wrap(b, (e[b] + f[b]) + g[b])
      BY <3>1, WrapArithmetic
    <3>3. Wrap(b, Wrap(b, f[b] + g[b]) + e[b]) = Wrap(b, (f[b] + g[b]) + e[b])
      BY <3>1, WrapArithmetic
    <3>4. Wrap(b, f[b] + g[b]) \in Int
      BY <3>1, WrapRange
    <3>5. /\ Wrap(b, f[b] + g[b]) + e[b] = e[b] + Wrap(b, f[b] + g[b])
          /\ (f[b] + g[b]) + e[b] = (e[b] + f[b]) + g[b]
      BY <3>1, <3>4
    <3> QED  BY <3>2, <3>3, <3>5
  <2>3. Wrapped(Sum(Wrapped(Sum(e, f)), g)) = Wrapped(Sum(e, Wrapped(Sum(f, g))))
    BY <2>2 DEF Wrapped
  <2> QED  BY <2>1, <2>3
<1>5. Times(u, v) = Times(v, u)
  <2>1. Sum(f, g) = Sum(g, f)
    BY <1>2
  <2> HIDE DEF Sum
  <2> QED  BY <2>1, <1>1, <1>3
<1>6. Times(Dimensionless, u) = u
  <2> DEFINE z == [b \in Base |-> 0]
  <2>1. Dimensionless = Free(z) /\ z \in Exponents
    <3>1. Dimensionless = Free(z)
      BY DEF Dimensionless, Free
    <3> QED  BY <3>1, BaseTyped, FreeShape DEF Free
  <2>2. Sum(z, f) = f
    BY <1>2
  <2> HIDE DEF Sum, z
  <2> QED  BY <2>1, <2>2, <1>1, <1>3, WrappedTyped
<1>7. Times(u, Inv(u)) = Dimensionless
  <2>1. Times(u, Inv(u)) = Free(Wrapped(Sum(f, Wrapped(Negated(f)))))
    <3> HIDE DEF Sum, Negated
    <3> QED  BY <1>1, <1>3, <1>n
  <2>2. ASSUME NEW b \in Base PROVE Wrap(b, f[b] + Wrap(b, -f[b])) = 0
    <3>1. f[b] \in Int /\ -f[b] \in Int
      BY <1>2
    <3>2. Wrap(b, Wrap(b, -f[b]) + f[b]) = Wrap(b, (-f[b]) + f[b])
      BY <3>1, WrapArithmetic
    <3>3. Wrap(b, -f[b]) \in Int
      BY <3>1, WrapRange
    <3>4. Wrap(b, -f[b]) + f[b] = f[b] + Wrap(b, -f[b]) /\ (-f[b]) + f[b] = 0
      BY <3>1, <3>3
    <3>5. MinVal(b) <= 0 /\ 0 <= MaxVal(b)
      BY DEF MinVal, MaxVal
    <3>6. Wrap(b, 0) = 0
      BY <3>5, WrapFits
    <3> QED  BY <3>2, <3>4, <3>6
  <2>3. Wrapped(Sum(f, Wrapped(Negated(f)))) = [b \in Base |-> 0]
    BY <2>2 DEF Wrapped
  <2> QED  BY <2>1, <2>3 DEF Dimensionless, Free
<1>8. Divides(u, v) = Times(u, Inv(v))
  <2>1. Times(u, Inv(v)) = Free(Wrapped(Sum(f, Wrapped(Negated(g)))))
    <3> HIDE DEF Sum, Negated
    <3> QED  BY <1>1, <1>3, <1>n
  <2>2. Divides(u, v) = Free(Wrapped([b \in Base |-> f[b] - g[b]]))
    BY <1>1, FreeOperations
  <2>3. ASSUME NEW b \in Base PROVE Wrap(b, f[b] + Wrap(b, -g[b])) = Wrap(b, f[b] - g[b])
    <3>1. f[b] \in Int /\ g[b] \in Int /\ -g[b] \in Int
      BY <1>2
    <3>2. Wrap(b, Wrap(b, -g[b]) + f[b]) = Wrap(b, (-g[b]) + f[b])
      BY <3>1, WrapArithmetic
    <3>3. Wrap(b, -g[b]) \in Int
      BY <3>1, WrapRange
    <3>4. Wrap(b, -g[b]) + f[b] = f[b] + Wrap(b, -g[b]) /\ (-g[b]) + f[b] = f[b] - g[b]
      BY <3>1, <3>3
    <3> QED  BY <3>2, <3>4
  <2>4. Wrapped(Sum(f, Wrapped(Negated(g)))) = Wrapped([b \in Base |-> f[b] - g[b]])
    BY <2>3 DEF Wrapped
  <2> QED  BY <2>1, <2>2, <2>4
<1> QED  BY <1>4, <1>5, <1>6, <1>7, <1>8

\* A power of a product is the product of the powers.
LEMMA BasePowTimes ==
  ASSUME NEW u \in FlagFreeBase, NEW v \in FlagFreeBase, NEW k \in Int
  PROVE  Pow(Times(u, v), k) = Times(Pow(u, k), Pow(v, k))
<1> DEFINE e == u.exp
           f == v.exp
           Sum(x, y) == [b \in Base |-> x[b] + y[b]]
           Multiple(x, n) == [b \in Base |-> x[b] * n]
<1>1. u = Free(e) /\ v = Free(f) /\ e \in Exponents /\ f \in Exponents
  BY FreeShape
<1>2. e \in [Base -> Int] /\ f \in [Base -> Int]
  BY <1>1, WrappedTyped
<1> HIDE DEF e, f
<1>3. ASSUME NEW x \in Exponents, NEW y \in Exponents
      PROVE  /\ Times(Free(x), Free(y)) = Free(Wrapped(Sum(x, y)))
             /\ Wrapped(Sum(x, y)) \in Exponents
  <2>1. x \in [Base -> Int] /\ y \in [Base -> Int]
    BY WrappedTyped
  <2>2. Sum(x, y) \in [Base -> Int]
    BY <2>1
  <2>3. Times(Free(x), Free(y)) = Free(Wrapped(Sum(x, y)))
    BY FreeOperations
  <2> HIDE DEF Sum
  <2> QED  BY <2>2, <2>3, WrappedTyped
<1>n. ASSUME NEW x \in Exponents, NEW n \in Int
      PROVE  /\ Pow(Free(x), n) = Free(Wrapped(Multiple(x, n)))
             /\ Wrapped(Multiple(x, n)) \in Exponents
  <2>1. x \in [Base -> Int]
    BY WrappedTyped
  <2>2. Multiple(x, n) \in [Base -> Int]
    BY <2>1
  <2>3. Pow(Free(x), n) = Free(Wrapped(Multiple(x, n)))
    BY FreeOperations
  <2> HIDE DEF Multiple
  <2> QED  BY <2>2, <2>3, WrappedTyped
<1>4. Pow(Times(u, v), k) = Times(Pow(u, k), Pow(v, k))
  <2>1. /\ Pow(Times(u, v), k) = Free(Wrapped(Multiple(Wrapped(Sum(e, f)), k)))
        /\ Times(Pow(u, k), Pow(v, k))
             = Free(Wrapped(Sum(Wrapped(Multiple(e, k)), Wrapped(Multiple(f, k)))))
    <3> HIDE DEF Sum, Multiple
    <3> QED  BY <1>1, <1>3, <1>n
  <2>2. ASSUME NEW b \in Base
        PROVE  Wrap(b, Wrap(b, e[b] + f[b]) * k)
                 = Wrap(b, Wrap(b, e[b] * k) + Wrap(b, f[b] * k))
    <3> DEFINE x == e[b] * k
               y == f[b] * k
    <3>1. e[b] \in Int /\ f[b] \in Int /\ e[b] + f[b] \in Int /\ x \in Int /\ y \in Int
      BY <1>2
    <3>2. Wrap(b, Wrap(b, e[b] + f[b]) * k) = Wrap(b, (e[b] + f[b]) * k)
      BY <3>1, WrapArithmetic
    <3>3. (e[b] + f[b]) * k = x + y
      BY <3>1
    <3> HIDE DEF x, y
    <3>4. Wrap(b, y) \in Int
      BY <3>1, WrapRange
    <3>5. Wrap(b, Wrap(b, x) + Wrap(b, y)) = Wrap(b, x + Wrap(b, y))
      BY <3>1, <3>4, WrapArithmetic
    <3>6. Wrap(b, Wrap(b, y) + x) = Wrap(b, y + x)
      BY <3>1, WrapArithmetic
    <3>7. Wrap(b, y) + x = x + Wrap(b, y) /\ y + x = x + y
      BY <3>1, <3>4
    <3>8. Wrap(b, Wrap(b, x) + Wrap(b, y)) = Wrap(b, x + y)
      BY <3>5, <3>6, <3>7
    <3> QED  BY <3>2, <3>3, <3>8 DEF x, y
  <2>3. Wrapped(Multiple(Wrapped(Sum(e, f)), k))
          = Wrapped(Sum(Wrapped(Multiple(e, k)), Wrapped(Multiple(f, k))))
    BY <2>2 DEF Wrapped
  <2> QED  BY <2>1, <2>3
<1> QED  BY <1>4

\* Powers of powers; the power -1 is the inverse.
LEMMA BasePowPow ==
  ASSUME NEW u \in FlagFreeBase, NEW j \in Int, NEW k \in Int
  PROVE  /\ Pow(Pow(u, j), k) = Pow(u, j * k)
         /\ Pow(u, 1) = u
         /\ Pow(u, -1) = Inv(u)
<1> DEFINE e == u.exp
           Multiple(x, n) == [b \in Base |-> x[b] * n]
<1>1. u = Free(e) /\ e \in Exponents
  BY FreeShape
<1>2. e \in [Base -> Int]
  BY <1>1, WrappedTyped
<1> HIDE DEF e
<1>n. ASSUME NEW x \in Exponents, NEW n \in Int
      PROVE  /\ Pow(Free(x), n) = Free(Wrapped(Multiple(x, n)))
             /\ Wrapped(Multiple(x, n)) \in Exponents
  <2>1. x \in [Base -> Int]
    BY WrappedTyped
  <2>2. Multiple(x, n) \in [Base -> Int]
    BY <2>1
  <2>3. Pow(Free(x), n) = Free(Wrapped(Multiple(x, n)))
    BY FreeOperations
  <2> HIDE DEF Multiple
  <2> QED  BY <2>2, <2>3, WrappedTyped
<1>5. Pow(Pow(u, j), k) = Pow(u, j * k)
  <2>1. j * k \in Int
    OBVIOUS
  <2>2. /\ Pow(Pow(u, j), k) = Free(Wrapped(Multiple(Wrapped(Multiple(e, j)), k)))
        /\ Pow(u, j * k) = Free(Wrapped(Multiple(e, j * k)))
    <3> HIDE DEF Multiple
    <3> QED  BY <1>1, <1>n, <2>1
  <2>3. ASSUME NEW b \in Base PROVE Wrap(b, Wrap(b, e[b] * j) * k) = Wrap(b, e[b] * (j * k))
    <3>1. e[b] \in Int /\ e[b] * j \in Int
      BY <1>2
    <3>2. Wrap(b, Wrap(b, e[b] * j) * k) = Wrap(b, (e[b] * j) * k)
      BY <3>1, WrapArithmetic
    <3>3. (e[b] * j) * k = e[b] * (j * k)
      BY <3>1
    <3> QED  BY <3>2, <3>3
  <2>4. Wrapped(Multiple(Wrapped(Multiple(e, j)), k)) = Wrapped(Multiple(e, j * k))
    BY <2>3 DEF Wrapped
  <2> QED  BY <2>2, <2>4
<1>6. Pow(u, 1) = u
  <2>1. Multiple(e, 1) = e
    BY <1>2
  <2> HIDE DEF Multiple
  <2> QED  BY <2>1, <1>1, <1>n, WrappedTyped
<1>7. Pow(u, -1) = Inv(u)
  <2>1. Multiple(e, -1) = [b \in Base |-> -e[b]]
    BY <1>2
  <2>2. Inv(u) = Free(Wrapped([b \in Base |-> -e[b]]))
    BY <1>1, FreeOperations
  <2> HIDE DEF Multiple
  <2> QED  BY <2>1, <2>2, <1>1, <1>n
<1> QED  BY <1>5, <1>6, <1>7

(***************************************************************************)
(* Units.                                                                  *)
(***************************************************************************)
Factor(m) == precise_unit(m, Dimensionless)

\* A unit is its multiplier and its base unit.
LEMMA UnitShape ==
  /\ \A u \in FlagFree : u = precise_unit(u.mult, u.base)
                         /\ u.mult \in NormalMult /\ u.base \in FlagFreeBase
  /\ \A m \in NormalMult, b \in FlagFreeBase : precise_unit(m, b) \in FlagFree
  /\ \A m, b : precise_unit(m, b).mult = m /\ precise_unit(m, b).base = b
BY DEF FlagFree, precise_unit

\* The operations on units without flags stay among them.
LEMMA UnitTyped ==
  /\ one \in FlagFree
  /\ \A u, v \in FlagFree : UnitTimes(u, v) \in FlagFree /\ UnitDivides(u, v) \in FlagFree
  /\ \A u \in FlagFree : UnitInv(u) \in FlagFree
  /\ \A u \in FlagFree, k \in Int : UnitPow(u, k) \in FlagFree
  /\ \A m \in NormalMult : Factor(m) \in FlagFree
  /\ \A b \in FlagFreeBase : Plain(b) \in FlagFree
<1>1. \A m \in NormalMult : Factor(m) \in FlagFree
  BY UnitShape, BaseTyped DEF Factor
<1>2. \A b \in FlagFreeBase : Plain(b) \in FlagFree
  BY UnitShape, MultTyped DEF Plain
<1>3. one \in FlagFree
  BY <1>2, BaseTyped DEF one
<1>4. ASSUME NEW u \in FlagFree, NEW v \in FlagFree
      PROVE  UnitTimes(u, v) \in FlagFree /\ UnitDivides(u, v) \in FlagFree
  <2>1. /\ MultTimes(u.mult, v.mult) \in NormalMult
        /\ MultTimes(u.mult, MultInv(v.mult)) \in NormalMult
    BY UnitShape, MultTyped
  <2>2. Times(u.base, v.base) \in FlagFreeBase /\ Divides(u.base, v.base) \in FlagFreeBase
    BY UnitShape, BaseTyped
  <2> QED  BY <2>1, <2>2, UnitShape DEF UnitTimes, UnitDivides
<1>5. ASSUME NEW u \in FlagFree PROVE UnitInv(u) \in FlagFree
  BY UnitShape, MultTyped, BaseTyped DEF UnitInv
<1>6. ASSUME NEW u \in FlagFree, NEW k \in Int PROVE UnitPow(u, k) \in FlagFree
  <2>1. MultPow(u.mult, k) \in NormalMult /\ Pow(u.base, k) \in FlagFreeBase
    BY UnitShape, MultTyped, BaseTyped
  <2> QED  BY <2>1, UnitShape DEF UnitPow
<1> QED  BY <1>1, <1>2, <1>3, <1>4, <1>5, <1>6

\* The units without flags are a commutative group.
LEMMA UnitLaws ==
  /\ \A t, u, v \in FlagFree : UnitTimes(UnitTimes(t, u), v) = UnitTimes(t, UnitTimes(u, v))
  /\ \A u, v \in FlagFree : /\ UnitTimes(u, v) = UnitTimes(v, u)
                            /\ UnitDivides(u, v) = UnitTimes(u, UnitInv(v))
  /\ \A u \in FlagFree : UnitTimes(one, u) = u /\ UnitTimes(u, UnitInv(u)) = one
<1>1. ASSUME NEW t \in FlagFree, NEW u \in FlagFree, NEW v \in FlagFree
      PROVE  UnitTimes(UnitTimes(t, u), v) = UnitTimes(t, UnitTimes(u, v))
  <2>1. MultTimes(MultTimes(t.mult, u.mult), v.mult) = MultTimes(t.mult, MultTimes(u.mult, v.mult))
    BY UnitShape, MultLaws
  <2>2. Times(Times(t.base, u.base), v.base) = Times(t.base, Times(u.base, v.base))
    BY UnitShape, BaseLaws
  <2> QED  BY <2>1, <2>2, UnitShape DEF UnitTimes
<1>2. ASSUME NEW u \in FlagFree, NEW v \in FlagFree
      PROVE  /\ UnitTimes(u, v) = UnitTimes(v, u)
             /\ UnitDivides(u, v) = UnitTimes(u, UnitInv(v))
  <2>1. MultTimes(u.mult, v.mult) = MultTimes(v.mult, u.mult)
    BY UnitShape, MultLaws
  <2>2. /\ Times(u.base, v.base) = Times(v.base, u.base)
        /\ Divides(u.base, v.base) = Times(u.base, Inv(v.base))
    BY UnitShape, BaseLaws
  <2> QED  BY <2>1, <2>2, UnitShape DEF UnitTimes, UnitDivides, UnitInv
<1>3. ASSUME NEW u \in FlagFree
      PROVE  UnitTimes(one, u) = u /\ UnitTimes(u, UnitInv(u)) = one
  <2>1. MultTimes(One, u.mult) = u.mult /\ MultTimes(u.mult, MultInv(u.mult)) = One
    BY UnitShape, MultLaws
  <2>2. Times(Dimensionless, u.base) = u.base /\ Times(u.base, Inv(u.base)) = Dimensionless
    BY UnitShape, BaseLaws
  <2> QED  BY <2>1, <2>2, UnitShape DEF UnitTimes, UnitInv, one, Plain
<1> QED  BY <1>1, <1>2, <1>3

\* What follows from these laws.
LEMMA GroupLaws ==
  /\ \A u \in FlagFree : UnitInv(UnitInv(u)) = u /\ UnitTimes(u, one) = u
  /\ \A u, v \in FlagFree :
       /\ UnitInv(UnitTimes(u, v)) = UnitTimes(UnitInv(u), UnitInv(v))
       /\ UnitTimes(UnitDivides(u, v), v) = u
       /\ UnitDivides(UnitTimes(u, v), v) = u
       /\ UnitTimes(u, v) = one => v = UnitInv(u)
  /\ UnitInv(one) = one
<1>1. ASSUME NEW u \in FlagFree, NEW v \in FlagFree, UnitTimes(u, v) = one
      PROVE  v = UnitInv(u)
  <2>1. UnitInv(u) \in FlagFree /\ UnitTimes(UnitInv(u), u) = one
    BY UnitTyped, UnitLaws
  <2>2. UnitTimes(UnitInv(u), UnitTimes(u, v)) = UnitTimes(UnitTimes(UnitInv(u), u), v)
    BY <2>1, UnitLaws
  <2>3. UnitTimes(UnitInv(u), one) = UnitTimes(one, UnitInv(u))
    BY <2>1, UnitTyped, UnitLaws
  <2> QED  BY <1>1, <2>1, <2>2, <2>3, UnitLaws
<1>2. ASSUME NEW u \in FlagFree PROVE UnitInv(UnitInv(u)) = u /\ UnitTimes(u, one) = u
  <2>1. UnitInv(u) \in FlagFree /\ UnitTimes(UnitInv(u), u) = one
    BY UnitTyped, UnitLaws
  <2>2. UnitTimes(u, one) = UnitTimes(one, u)
    BY UnitTyped, UnitLaws
  <2> QED  BY <2>1, <2>2, <1>1, UnitLaws
<1>3. ASSUME NEW u \in FlagFree, NEW v \in FlagFree
      PROVE  /\ UnitTimes(UnitDivides(u, v), v) = u
             /\ UnitDivides(UnitTimes(u, v), v) = u
  <2>1. UnitInv(v) \in FlagFree /\ UnitTimes(v, UnitInv(v)) = one
        /\ UnitTimes(UnitInv(v), v) = one /\ UnitTimes(u, v) \in FlagFree
    BY UnitTyped, UnitLaws
  <2>2. UnitTimes(UnitTimes(u, UnitInv(v)), v) = UnitTimes(u, one)
    BY <2>1, UnitLaws
  <2>3. UnitTimes(UnitTimes(u, v), UnitInv(v)) = UnitTimes(u, one)
    BY <2>1, UnitLaws
  <2> QED  BY <2>1, <2>2, <2>3, <1>2, UnitLaws
<1>4. ASSUME NEW u \in FlagFree, NEW v \in FlagFree
      PROVE  UnitInv(UnitTimes(u, v)) = UnitTimes(UnitInv(u), UnitInv(v))
  <2> DEFINE x == UnitTimes(u, v)
             y == UnitTimes(UnitInv(v), UnitInv(u))
  <2>1. UnitInv(u) \in FlagFree /\ UnitInv(v) \in FlagFree
    BY UnitTyped
  <2>2. x \in FlagFree /\ y \in FlagFree
    BY <2>1, UnitTyped
  <2>3. UnitTimes(x, y) = UnitTimes(UnitTimes(x, UnitInv(v)), UnitInv(u))
    <3> HIDE DEF x
    <3> QED  BY <2>1, <2>2, UnitLaws
  <2>4. UnitTimes(x, UnitInv(v)) = u
    BY <2>2, <1>3, UnitLaws
  <2>5. UnitTimes(x, y) = one
    BY <2>3, <2>4, UnitLaws
  <2>6. y = UnitTimes(UnitInv(u), UnitInv(v))
    BY <2>1, UnitLaws
  <2> HIDE DEF x, y
  <2>7. y = UnitInv(x)
    BY <2>2, <2>5, <1>1
  <2> QED  BY <2>6, <2>7 DEF x
<1>5. UnitInv(one) = one
  BY UnitTyped, UnitLaws, <1>1
<1> QED  BY <1>1, <1>2, <1>3, <1>4, <1>5

\* Powers are repeated products; the power -1 is the inverse.
LEMMA UnitPowLaws ==
  /\ \A u, v \in FlagFree, k \in Int :
       UnitPow(UnitTimes(u, v), k) = UnitTimes(UnitPow(u, k), UnitPow(v, k))
  /\ \A u \in FlagFree, j, k \in Int : UnitPow(UnitPow(u, j), k) = UnitPow(u, j * k)
  /\ \A u \in FlagFree : UnitPow(u, 1) = u /\ UnitPow(u, -1) = UnitInv(u)
<1>1. ASSUME NEW u \in FlagFree, NEW v \in FlagFree, NEW k \in Int
      PROVE  UnitPow(UnitTimes(u, v), k) = UnitTimes(UnitPow(u, k), UnitPow(v, k))
  <2>1. MultPow(MultTimes(u.mult, v.mult), k)
          = MultTimes(MultPow(u.mult, k), MultPow(v.mult, k))
    BY UnitShape, MultPowLaws
  <2>2. Pow(Times(u.base, v.base), k) = Times(Pow(u.base, k), Pow(v.base, k))
    <3>1. u.base \in FlagFreeBase /\ v.base \in FlagFreeBase
      BY UnitShape
    <3> QED  BY <3>1, BasePowTimes
  <2> QED  BY <2>1, <2>2, UnitShape DEF UnitPow, UnitTimes
<1>2. ASSUME NEW u \in FlagFree, NEW j \in Int, NEW k \in Int
      PROVE  UnitPow(UnitPow(u, j), k) = UnitPow(u, j * k)
  <2>1. MultPow(MultPow(u.mult, j), k) = MultPow(u.mult, j * k)
    BY UnitShape, MultPowLaws
  <2>2. Pow(Pow(u.base, j), k) = Pow(u.base, j * k)
    <3>1. u.base \in FlagFreeBase
      BY UnitShape
    <3> QED  BY <3>1, BasePowPow
  <2> QED  BY <2>1, <2>2, UnitShape DEF UnitPow
<1>3. ASSUME NEW u \in FlagFree PROVE UnitPow(u, 1) = u /\ UnitPow(u, -1) = UnitInv(u)
  <2>1. u.mult \in NormalMult /\ u.base \in FlagFreeBase
    BY UnitShape
  <2>2. MultPow(u.mult, 1) = u.mult
    BY <2>1, MultPowLaws, 1 \in Int
  <2>3. Pow(u.base, 1) = u.base /\ Pow(u.base, -1) = Inv(u.base)
    BY <2>1, BasePowPow, 1 \in Int
  <2> QED  BY <2>2, <2>3, UnitShape DEF UnitPow, UnitInv, MultInv
<1> QED  BY <1>1, <1>2, <1>3

\* A unit is its multiplier times its base unit, and a number multiplies it.
LEMMA FactorLaws ==
  /\ \A u \in FlagFree : u = UnitTimes(Factor(u.mult), Plain(u.base))
  /\ \A m \in NormalMult, u \in FlagFree :
       UnitTimes(Factor(m), u) = [u EXCEPT !.mult = MultTimes(m, @)]
  /\ \A m, n \in NormalMult : UnitTimes(Factor(m), Factor(n)) = Factor(MultTimes(m, n))
  /\ \A m \in NormalMult : UnitInv(Factor(m)) = Factor(MultInv(m))
  /\ \A m \in NormalMult, k \in Int : UnitPow(Factor(m), k) = Factor(MultPow(m, k))
  /\ \A b, c \in FlagFreeBase : UnitTimes(Plain(b), Plain(c)) = Plain(Times(b, c))
  /\ \A b \in FlagFreeBase : UnitInv(Plain(b)) = Plain(Inv(b))
  /\ Factor(One) = one
<1>1. ASSUME NEW m \in NormalMult, NEW u \in FlagFree
      PROVE  UnitTimes(Factor(m), u) = precise_unit(MultTimes(m, u.mult), u.base)
  <2>1. Times(Dimensionless, u.base) = u.base
    BY UnitShape, BaseLaws
  <2> QED  BY <2>1, UnitShape DEF UnitTimes, Factor
<1>2. ASSUME NEW u \in FlagFree PROVE u = UnitTimes(Factor(u.mult), Plain(u.base))
  <2>1. u.mult \in NormalMult /\ Plain(u.base) \in FlagFree
    BY UnitShape, UnitTyped
  <2>2. MultTimes(u.mult, One) = u.mult
    BY <2>1, MultLaws, MultTyped
  <2>3. Plain(u.base).mult = One /\ Plain(u.base).base = u.base
    BY UnitShape DEF Plain
  <2> QED  BY <2>1, <2>2, <2>3, <1>1, UnitShape
<1>3. ASSUME NEW m \in NormalMult, NEW u \in FlagFree
      PROVE  UnitTimes(Factor(m), u) = [u EXCEPT !.mult = MultTimes(m, @)]
  BY <1>1 DEF FlagFree, precise_unit
<1>4. ASSUME NEW m \in NormalMult, NEW n \in NormalMult
      PROVE  UnitTimes(Factor(m), Factor(n)) = Factor(MultTimes(m, n))
  <2>1. /\ Factor(n) \in FlagFree
        /\ Factor(n).mult = n /\ Factor(n).base = Dimensionless
    BY UnitTyped, UnitShape DEF Factor
  <2>2. UnitTimes(Factor(m), Factor(n)) = precise_unit(MultTimes(m, n), Dimensionless)
    BY <1>1, <2>1
  <2> QED  BY <2>2 DEF Factor
<1>z. Times(Dimensionless, Dimensionless) = Dimensionless
      /\ Inv(Dimensionless) = Dimensionless
  <2>1. Times(Dimensionless, Inv(Dimensionless)) = Dimensionless
        /\ Times(Dimensionless, Inv(Dimensionless)) = Inv(Dimensionless)
    BY BaseTyped, BaseLaws
  <2> QED  BY <2>1, BaseTyped, BaseLaws
<1>5. ASSUME NEW m \in NormalMult PROVE UnitInv(Factor(m)) = Factor(MultInv(m))
  BY <1>z, UnitShape DEF Factor, UnitInv
<1>6. ASSUME NEW m \in NormalMult, NEW k \in Int
      PROVE  UnitPow(Factor(m), k) = Factor(MultPow(m, k))
  <2>1. Pow(Dimensionless, k) = Dimensionless
    <3>1. Dimensionless = Free([b \in Base |-> 0])
      BY DEF Dimensionless, Free
    <3>2. [b \in Base |-> 0] \in Exponents
      BY <3>1, BaseTyped, FreeShape DEF Free
    <3> DEFINE z == [b \in Base |-> 0]
    <3>3. [b \in Base |-> z[b] * k] = z
      OBVIOUS
    <3> HIDE DEF z
    <3>4. Pow(Free(z), k) = Free(Wrapped([b \in Base |-> z[b] * k]))
      BY <3>2, FreeOperations DEF z
    <3>5. Wrapped(z) = z
      BY <3>2, WrappedTyped DEF z
    <3> QED  BY <3>1, <3>3, <3>4, <3>5 DEF z
  <2> QED  BY <2>1, UnitShape DEF Factor, UnitPow
<1>7. ASSUME NEW b \in FlagFreeBase, NEW c \in FlagFreeBase
      PROVE  UnitTimes(Plain(b), Plain(c)) = Plain(Times(b, c))
  BY MultTyped, MultLaws, UnitShape DEF UnitTimes, Plain
<1>8. ASSUME NEW b \in FlagFreeBase PROVE UnitInv(Plain(b)) = Plain(Inv(b))
  <2>1. MultInv(One) = One
    <3>1. MultTimes(One, MultInv(One)) = One /\ MultTimes(One, MultInv(One)) = MultInv(One)
      BY MultTyped, MultLaws
    <3> QED  BY <3>1
  <2> QED  BY <2>1, UnitShape DEF UnitInv, Plain
<1>9. Factor(One) = one
  BY DEF Factor, one, Plain
<1> QED  BY <1>3, <1>2, <1>4, <1>5, <1>6, <1>7, <1>8, <1>9

(***************************************************************************)
(* Terms.  The worth of a term is what it contributes to a text, unless it *)
(* clashes with another name.                                              *)
(***************************************************************************)
TermType == [divides : BOOLEAN, prefix : SIPrefix \cup {0}, name : Vocabulary,
             code : Int, power : Int \ {0}]
Readable == {term \in TermType : Known(term) \in FlagFree}

Stem(prefix, term) == UnitTimes(Factor(number(prefix, 0)), Known(term))
Worth(term) == UnitPow(Stem(term.prefix, term), SignedPower(term))

Clashes(term) == <<term.prefix, term.name, term.power>> \in Clash

\* The same name with another sign, prefix and power.
Altered(term, divides, prefix, power) ==
  [divides |-> divides, prefix |-> prefix, name |-> term.name, code |-> term.code,
   power |-> power]

\* The prefixes are powers of ten.
LEMMA PrefixTyped == SIPrefix \cup {0} \subseteq Int /\ \A p \in Int : number(p, 0) \in NormalMult
BY DEF SIPrefix, number, NormalMult

\* A prefixed name means a unit without flags.
LEMMA StemTyped ==
  ASSUME NEW term \in Readable, NEW prefix \in SIPrefix \cup {0}
  PROVE  Stem(prefix, term) \in FlagFree
<1>1. Known(term) \in FlagFree /\ number(prefix, 0) \in NormalMult
  BY PrefixTyped DEF Readable
<1> QED  BY <1>1, UnitTyped DEF Stem

\* So does a term.
LEMMA WorthTyped ==
  ASSUME NEW term \in Readable
  PROVE  /\ SignedPower(term) \in Int \ {0}
         /\ Worth(term) \in FlagFree
<1>1. term \in TermType
  BY DEF Readable
<1>2. SignedPower(term) \in Int \ {0}
  BY <1>1 DEF TermType, SignedPower
<1>3. Stem(term.prefix, term) \in FlagFree
  BY <1>1, StemTyped DEF TermType
<1> QED  BY <1>2, <1>3, UnitTyped DEF Worth

\* What a term is worth after a change of its sign, prefix and power.
LEMMA AlteredWorth ==
  ASSUME NEW term \in Readable, NEW divides \in BOOLEAN,
         NEW prefix \in SIPrefix \cup {0}, NEW power \in Int \ {0}
  PROVE  /\ Altered(term, divides, prefix, power) \in Readable
         /\ Worth(Altered(term, divides, prefix, power))
              = UnitPow(Stem(prefix, term), IF divides THEN -power ELSE power)
<1> DEFINE new == Altered(term, divides, prefix, power)
<1>1. /\ new.divides = divides /\ new.prefix = prefix /\ new.power = power
      /\ new.name = term.name /\ new.code = term.code
  BY DEF Altered
<1>2. new \in TermType
  BY DEF Readable, TermType, Altered
<1> HIDE DEF new
<1>3. Known(new) = Known(term)
  BY <1>1 DEF Known
<1>4. new \in Readable
  BY <1>2, <1>3 DEF Readable
<1>5. Worth(new) = UnitPow(Stem(prefix, term), IF divides THEN -power ELSE power)
  BY <1>1, <1>3 DEF Worth, Stem, SignedPower
<1> QED  BY <1>4, <1>5 DEF new

\* A term with the other sign is worth the inverse.
LEMMA DividingWorth ==
  ASSUME NEW term \in Readable
  PROVE  Dividing(term) \in Readable /\ Worth(Dividing(term)) = UnitInv(Worth(term))
<1> DEFINE stem == Stem(term.prefix, term)
           d == ~term.divides
<1>1. /\ term.divides \in BOOLEAN /\ term.prefix \in SIPrefix \cup {0}
      /\ term.power \in Int \ {0}
  BY DEF Readable, TermType
<1>2. Dividing(term) = Altered(term, d, term.prefix, term.power)
  BY DEF Dividing, Altered, Readable, TermType
<1>3. stem \in FlagFree
  BY <1>1, StemTyped
<1> HIDE DEF stem
<1>4. ASSUME NEW k \in Int PROVE UnitPow(stem, -k) = UnitInv(UnitPow(stem, k))
  <2>1. UnitPow(UnitPow(stem, k), -1) = UnitPow(stem, k * (-1))
    BY <1>3, UnitPowLaws, -1 \in Int
  <2>2. k * (-1) = -k
    OBVIOUS
  <2>3. UnitPow(stem, k) \in FlagFree
    BY <1>3, UnitTyped
  <2> QED  BY <2>1, <2>2, <2>3, UnitPowLaws
<1>5. d \in BOOLEAN
  BY <1>1
<1> HIDE DEF d
<1>6. /\ Dividing(term) \in Readable
      /\ Worth(Dividing(term)) = UnitPow(stem, IF d THEN -term.power ELSE term.power)
  BY <1>1, <1>2, <1>5, AlteredWorth DEF stem
<1>7. Worth(term) = UnitPow(stem, IF term.divides THEN -term.power ELSE term.power)
  BY DEF Worth, SignedPower, stem
<1>8. CASE term.divides
  <2>1. UnitInv(UnitPow(stem, -term.power)) = UnitPow(stem, term.power)
    <3>1. UnitPow(stem, term.power) \in FlagFree /\ term.power \in Int
      BY <1>1, <1>3, UnitTyped
    <3> QED  BY <3>1, <1>4, GroupLaws
  <2> QED  BY <1>6, <1>7, <1>8, <2>1 DEF d
<1>9. CASE ~term.divides
  BY <1>1, <1>4, <1>6, <1>7, <1>9 DEF d
<1> QED  BY <1>8, <1>9

\* What the reader makes of a term that does not clash.
LEMMA ReadWorth ==
  ASSUME NEW term \in Readable, ~Clashes(term), NEW read \in FlagFree
  PROVE  ReadNext(read, term) = UnitTimes(read, Worth(term))
<1> DEFINE stem == Stem(term.prefix, term)
<1>1. /\ term.divides \in BOOLEAN /\ term.prefix \in SIPrefix \cup {0}
      /\ term.power \in Int \ {0}
  BY DEF Readable, TermType
<1>2. ReadTerm(term) = UnitPow(stem, term.power)
  BY DEF ReadTerm, Clashes, Stem, Factor
<1>3. stem \in FlagFree
  BY <1>1, StemTyped
<1>4. UnitPow(stem, term.power) \in FlagFree
  BY <1>1, <1>3, UnitTyped
<1>5. CASE term.divides
  <2>1. UnitInv(UnitPow(stem, term.power)) = UnitPow(stem, -term.power)
    <3>1. UnitPow(UnitPow(stem, term.power), -1) = UnitPow(stem, term.power * (-1))
      BY <1>1, <1>3, UnitPowLaws, -1 \in Int
    <3>2. term.power * (-1) = -term.power
      BY <1>1
    <3> QED  BY <3>1, <3>2, <1>4, UnitPowLaws
  <2>2. Worth(term) = UnitPow(stem, -term.power)
    BY <1>5 DEF Worth, SignedPower
  <2>3. ReadNext(read, term) = UnitDivides(read, UnitPow(stem, term.power))
    BY <1>2, <1>5 DEF ReadNext
  <2> QED  BY <2>1, <2>2, <2>3, <1>4, UnitLaws
<1>6. CASE ~term.divides
  <2>1. Worth(term) = UnitPow(stem, term.power)
    BY <1>6 DEF Worth, SignedPower
  <2> QED  BY <2>1, <1>2, <1>6 DEF ReadNext
<1> QED  BY <1>5, <1>6

(***************************************************************************)
(* Products of terms.                                                      *)
(***************************************************************************)
\* f is the sequence of the products of the first terms.
Runs(f, terms) ==
  /\ f \in [0..Len(terms) -> FlagFree]
  /\ f[0] = one
  /\ \A k \in 1..Len(terms) : f[k] = UnitTimes(f[k - 1], Worth(terms[k]))

Product(terms) == (CHOOSE f : Runs(f, terms))[Len(terms)]

\* The domain and the members of a sequence.
LEMMA SeqShape ==
  ASSUME NEW S, NEW s \in Seq(S)
  PROVE  Len(s) \in Nat /\ DOMAIN s = 1..Len(s) /\ \A k \in 1..Len(s) : s[k] \in S
OBVIOUS

\* The running products of a text exist ...
LEMMA RunsExist ==
  ASSUME NEW terms \in Seq(Readable)
  PROVE  \E f : Runs(f, terms)
<1> DEFINE n == Len(terms)
           G == [x \in Nat \X FlagFree |->
                   IF x[1] < n THEN UnitTimes(x[2], Worth(terms[x[1] + 1])) ELSE x[2]]
<1>1. n \in Nat /\ \A k \in 1..n : terms[k] \in Readable
  BY SeqShape
<1> HIDE DEF n
<1>2. G \in [Nat \X FlagFree -> FlagFree]
  <2>1. ASSUME NEW x \in Nat \X FlagFree
        PROVE  (IF x[1] < n THEN UnitTimes(x[2], Worth(terms[x[1] + 1])) ELSE x[2]) \in FlagFree
    <3>1. x[1] \in Nat /\ x[2] \in FlagFree
      OBVIOUS
    <3>2. CASE x[1] < n
      <4>1. x[1] + 1 \in 1..n
        BY <1>1, <3>1, <3>2
      <4> QED  BY <1>1, <3>1, <3>2, <4>1, WorthTyped, UnitTyped
    <3> QED  BY <3>1, <3>2
  <2> QED  BY <2>1
<1>r. PICK F : IsSequence(F, FlagFree, one, G)
  <2> HIDE DEF G
  <2>1. one \in FlagFree
    BY UnitTyped
  <2> QED  BY <1>2, <2>1, RecursiveSequence
<1>3. /\ F \in [Nat -> FlagFree] /\ F[0] = one
      /\ \A k \in Nat : F[k + 1] = G[<<k, F[k]>>]
  BY <1>r DEF IsSequence
<1> DEFINE f == [k \in 0..n |-> F[k]]
<1>4. f \in [0..n -> FlagFree] /\ f[0] = one
  BY <1>1, <1>3
<1>5. ASSUME NEW k \in 1..n PROVE f[k] = UnitTimes(f[k - 1], Worth(terms[k]))
  <2>1. k - 1 \in Nat /\ k - 1 < n /\ (k - 1) + 1 = k /\ k - 1 \in 0..n /\ k \in 0..n
    BY <1>1
  <2>2. F[k] = G[<<k - 1, F[k - 1]>>]
    BY <1>3, <2>1
  <2>3. <<k - 1, F[k - 1]>> \in Nat \X FlagFree
    BY <1>3, <2>1
  <2>4. G[<<k - 1, F[k - 1]>>] = UnitTimes(F[k - 1], Worth(terms[k]))
    BY <2>1, <2>3
  <2> QED  BY <2>1, <2>2, <2>4
<1> HIDE DEF f
<1> QED  BY <1>4, <1>5 DEF Runs, n

\* The products of the first terms are determined.
LEMMA RunsUnique ==
  ASSUME NEW terms \in Seq(Readable), NEW f, NEW g, Runs(f, terms), Runs(g, terms)
  PROVE  f[Len(terms)] = g[Len(terms)]
<1> DEFINE n == Len(terms)
           S == {k \in Nat : k <= n => f[k] = g[k]}
<1>1. n \in Nat
  BY SeqShape
<1>2. 0 \in S
  BY DEF Runs
<1>3. ASSUME NEW k \in Nat, k \in S PROVE k + 1 \in S
  <2> SUFFICES ASSUME k + 1 <= n PROVE f[k + 1] = g[k + 1]
    OBVIOUS
  <2>1. k + 1 \in 1..n /\ (k + 1) - 1 = k /\ f[k] = g[k]
    BY <1>1, <1>3
  <2>2. /\ f[k + 1] = UnitTimes(f[(k + 1) - 1], Worth(terms[k + 1]))
        /\ g[k + 1] = UnitTimes(g[(k + 1) - 1], Worth(terms[k + 1]))
    BY <2>1 DEF Runs
  <2> QED  BY <2>1, <2>2
<1>4. Nat \subseteq S
  <2> HIDE DEF S
  <2> QED  BY <1>2, <1>3, InductionOnSet
<1> QED  BY <1>1, <1>4

\* ... and their last one is its product.
LEMMA ProductOfRuns ==
  ASSUME NEW terms \in Seq(Readable), NEW f, Runs(f, terms)
  PROVE  Product(terms) = f[Len(terms)]
<1>1. Runs(CHOOSE g : Runs(g, terms), terms)
  OBVIOUS
<1> QED  BY <1>1, RunsUnique DEF Product

\* The product of a text is a unit without flags.
LEMMA ProductTyped ==
  ASSUME NEW terms \in Seq(Readable)
  PROVE  Product(terms) \in FlagFree
<1>1. PICK f : Runs(f, terms)
  BY RunsExist
<1>2. Len(terms) \in 0..Len(terms)
  BY SeqShape
<1>3. f[Len(terms)] \in FlagFree
  BY <1>1, <1>2 DEF Runs
<1> QED  BY <1>1, <1>3, ProductOfRuns

\* The products of short texts.
LEMMA ProductOfNone == <<>> \in Seq(Readable) /\ Product(<<>>) = one
<1>1. <<>> \in Seq(Readable) /\ Len(<<>>) = 0
  BY EmptySeq
<1>2. PICK f : Runs(f, <<>>)
  BY <1>1, RunsExist
<1>3. f[Len(<<>>)] = one
  BY <1>1, <1>2 DEF Runs
<1> QED  BY <1>1, <1>2, <1>3, ProductOfRuns

\* One term.
LEMMA ProductOfOne ==
  ASSUME NEW term \in Readable
  PROVE  <<term>> \in Seq(Readable) /\ Product(<<term>>) = Worth(term)
<1>1. <<term>> \in Seq(Readable) /\ Len(<<term>>) = 1 /\ <<term>>[1] = term
  OBVIOUS
<1>2. PICK f : Runs(f, <<term>>)
  BY <1>1, RunsExist
<1>3. f[1] = UnitTimes(one, Worth(term))
  BY <1>1, <1>2 DEF Runs
<1>4. Product(<<term>>) = f[1]
  BY <1>1, <1>2, ProductOfRuns
<1> QED  BY <1>1, <1>3, <1>4, WorthTyped, UnitLaws

\* Two texts one after the other are worth the product.
LEMMA ProductOfConcat ==
  ASSUME NEW s \in Seq(Readable), NEW t \in Seq(Readable)
  PROVE  s \o t \in Seq(Readable) /\ Product(s \o t) = UnitTimes(Product(s), Product(t))
<1> DEFINE m == Len(s)
           n == Len(t)
           st == s \o t
<1>1. m \in Nat /\ n \in Nat
  BY SeqShape
<1>2. /\ st \in Seq(Readable) /\ Len(st) = m + n
      /\ \A k \in 1..m : st[k] = s[k]
      /\ \A k \in (m + 1)..(m + n) : st[k] = t[k - m]
  OBVIOUS
<1> HIDE DEF st
<1>3. PICK f : Runs(f, s)
  BY RunsExist
<1>4. PICK g : Runs(g, t)
  BY RunsExist
<1>5. /\ f \in [0..m -> FlagFree] /\ f[0] = one
      /\ \A k \in 1..m : f[k] = UnitTimes(f[k - 1], Worth(s[k]))
      /\ g \in [0..n -> FlagFree] /\ g[0] = one
      /\ \A k \in 1..n : g[k] = UnitTimes(g[k - 1], Worth(t[k]))
  BY <1>3, <1>4 DEF Runs
<1> HIDE DEF m, n
<1> DEFINE h == [k \in 0..(m + n) |-> IF k <= m THEN f[k] ELSE UnitTimes(f[m], g[k - m])]
<1>6. /\ \A k \in 0..m : h[k] = f[k]
      /\ \A k \in (m + 1)..(m + n) : h[k] = UnitTimes(f[m], g[k - m])
  BY <1>1
<1>7. f[m] \in FlagFree /\ \A k \in 0..n : g[k] \in FlagFree
  BY <1>1, <1>5
<1>8. h \in [0..(m + n) -> FlagFree]
  <2>1. ASSUME NEW k \in 0..(m + n)
        PROVE  (IF k <= m THEN f[k] ELSE UnitTimes(f[m], g[k - m])) \in FlagFree
    <3>1. CASE k <= m
      BY <1>1, <1>5, <3>1
    <3>2. CASE ~(k <= m)
      <4>1. k - m \in 0..n
        BY <1>1, <3>2
      <4> QED  BY <4>1, <3>2, <1>7, UnitTyped
    <3> QED  BY <3>1, <3>2
  <2> QED  BY <2>1
<1>9. \A k \in m..(m + n) : h[k] = UnitTimes(f[m], g[k - m])
  <2> SUFFICES ASSUME NEW k \in m..(m + n) PROVE h[k] = UnitTimes(f[m], g[k - m])
    OBVIOUS
  <2>1. CASE k = m
    <3>1. h[k] = f[m] /\ k - m = 0
      BY <1>1, <1>6, <2>1
    <3> QED  BY <3>1, <1>5, <1>7, GroupLaws
  <2>2. CASE k # m
    <3>1. k \in (m + 1)..(m + n)
      BY <1>1, <2>2
    <3> QED  BY <1>6, <3>1
  <2> QED  BY <2>1, <2>2
<1> HIDE DEF h
<1>10. ASSUME NEW k \in 1..(m + n) PROVE h[k] = UnitTimes(h[k - 1], Worth(st[k]))
  <2>1. CASE k <= m
    <3>1. k \in 1..m /\ k \in 0..m /\ k - 1 \in 0..m
      BY <1>1, <2>1
    <3> QED  BY <3>1, <1>2, <1>5, <1>6
  <2>2. CASE ~(k <= m)
    <3>1. /\ k \in (m + 1)..(m + n) /\ k \in m..(m + n) /\ k - 1 \in m..(m + n)
          /\ k - m \in 1..n /\ (k - 1) - m = (k - m) - 1 /\ (k - m) - 1 \in 0..n
      BY <1>1, <2>2
    <3>2. h[k] = UnitTimes(f[m], g[k - m])
      BY <3>1, <1>9
    <3>3. h[k - 1] = UnitTimes(f[m], g[(k - m) - 1])
      BY <3>1, <1>9
    <3>4. g[k - m] = UnitTimes(g[(k - m) - 1], Worth(t[k - m])) /\ st[k] = t[k - m]
      BY <3>1, <1>2, <1>5
    <3>5. g[(k - m) - 1] \in FlagFree
      BY <3>1, <1>7
    <3>6. Worth(t[k - m]) \in FlagFree
      <4>1. t[k - m] \in Readable
        BY <3>1, SeqShape DEF n
      <4> QED  BY <4>1, WorthTyped
    <3> QED  BY <3>2, <3>3, <3>4, <3>5, <3>6, <1>7, UnitLaws
  <2> QED  BY <2>1, <2>2
<1>11. Runs(h, st)
  <2>1. h[0] = one
    BY <1>1, <1>5, <1>6
  <2> QED  BY <2>1, <1>2, <1>8, <1>10 DEF Runs
<1>12. Product(st) = h[m + n]
  BY <1>2, <1>11, ProductOfRuns
<1>13. h[m + n] = UnitTimes(f[m], g[n])
  <2>1. m + n \in m..(m + n) /\ (m + n) - m = n
    BY <1>1
  <2> QED  BY <2>1, <1>9
<1>14. Product(s) = f[m] /\ Product(t) = g[n]
  BY <1>3, <1>4, ProductOfRuns DEF m, n
<1> QED  BY <1>2, <1>12, <1>13, <1>14 DEF st

\* Two terms.
LEMMA ProductOfTwo ==
  ASSUME NEW s \in Readable, NEW t \in Readable
  PROVE  <<s, t>> \in Seq(Readable) /\ Product(<<s, t>>) = UnitTimes(Worth(s), Worth(t))
<1>1. <<s, t>> = <<s>> \o <<t>>
  <2> DEFINE x == <<s>> \o <<t>>
  <2>1. <<s, t>> \in Seq(Readable) /\ x \in Seq(Readable) /\ Len(<<s, t>>) = 2 /\ Len(x) = 2
    OBVIOUS
  <2>2. x[1] = s /\ x[2] = t
    OBVIOUS
  <2> HIDE DEF x
  <2>3. \A i \in 1..2 : <<s, t>>[i] = x[i]
    BY <2>2
  <2>4. <<s, t>> = x
    BY <2>1, <2>3, SeqEqual
  <2> QED  BY <2>4 DEF x
<1>2. <<s>> \in Seq(Readable) /\ <<t>> \in Seq(Readable)
      /\ Product(<<s>>) = Worth(s) /\ Product(<<t>>) = Worth(t)
  BY ProductOfOne
<1> QED  BY <1>1, <1>2, ProductOfConcat

\* One more term.
LEMMA ProductOfAppend ==
  ASSUME NEW s \in Seq(Readable), NEW t \in Readable
  PROVE  /\ Append(s, t) \in Seq(Readable)
         /\ Product(Append(s, t)) = UnitTimes(Product(s), Worth(t))
<1>1. Append(s, t) = s \o <<t>>
  BY AppendIsConcat
<1>2. <<t>> \in Seq(Readable) /\ Product(<<t>>) = Worth(t)
  BY ProductOfOne
<1> QED  BY <1>1, <1>2, ProductOfConcat

\* Changing the first term.
LEMMA ProductOfFirst ==
  ASSUME NEW s \in Seq(Readable), s # <<>>
  PROVE  /\ s[1] \in Readable /\ Tail(s) \in Seq(Readable)
         /\ s = <<s[1]>> \o Tail(s)
         /\ \A t \in Readable : /\ [s EXCEPT ![1] = t] = <<t>> \o Tail(s)
                                /\ [s EXCEPT ![1] = t] \in Seq(Readable)
                                /\ Product([s EXCEPT ![1] = t])
                                     = UnitTimes(Worth(t), Product(Tail(s)))
         /\ Product(s) = UnitTimes(Worth(s[1]), Product(Tail(s)))
<1>1. s[1] \in Readable /\ Tail(s) \in Seq(Readable) /\ Len(s) >= 1
  OBVIOUS
<1>2. \A t \in Readable : [s EXCEPT ![1] = t] \in Seq(Readable)
  OBVIOUS
<1>3. ASSUME NEW t \in Readable PROVE [s EXCEPT ![1] = t] = <<t>> \o Tail(s)
  <2> DEFINE x == [s EXCEPT ![1] = t]
             y == <<t>> \o Tail(s)
  <2>1. x \in Seq(Readable) /\ Len(x) = Len(s) /\ x[1] = t
        /\ \A i \in 2..Len(s) : x[i] = s[i]
    BY <1>1
  <2>2. y \in Seq(Readable) /\ Len(y) = Len(s) /\ y[1] = t
    BY <1>1
  <2>3. \A i \in 2..Len(s) : y[i] = s[i]
    BY <1>1
  <2> HIDE DEF x, y
  <2>4. \A i \in 1..Len(x) : x[i] = y[i]
    BY <2>1, <2>2, <2>3, <1>1
  <2>5. x = y
    BY <2>1, <2>2, <2>4, SeqEqual
  <2> QED  BY <2>5 DEF x, y
<1>4. [s EXCEPT ![1] = s[1]] = s
  OBVIOUS
<1>5. s = <<s[1]>> \o Tail(s)
  BY <1>1, <1>3, <1>4
<1>6. ASSUME NEW t \in Readable
      PROVE  Product(<<t>> \o Tail(s)) = UnitTimes(Worth(t), Product(Tail(s)))
  <2>1. <<t>> \in Seq(Readable) /\ Product(<<t>>) = Worth(t)
    BY ProductOfOne
  <2> QED  BY <1>1, <2>1, ProductOfConcat
<1> QED  BY <1>1, <1>2, <1>3, <1>5, <1>6

\* Every term with the other sign: the inverse.
LEMMA ProductOfDividing ==
  ASSUME NEW terms \in Seq(Readable)
  PROVE  /\ DividingAll(terms) \in Seq(Readable)
         /\ Product(DividingAll(terms)) = UnitInv(Product(terms))
<1> DEFINE n == Len(terms)
           all == DividingAll(terms)
<1>1. n \in Nat /\ DOMAIN terms = 1..n /\ \A k \in 1..n : terms[k] \in Readable
  BY SeqShape
<1>2. all = [k \in 1..n |-> Dividing(terms[k])]
  BY <1>1 DEF DividingAll
<1>3. \A k \in 1..n : Dividing(terms[k]) \in Readable
                      /\ Worth(Dividing(terms[k])) = UnitInv(Worth(terms[k]))
  BY <1>1, DividingWorth
<1> HIDE DEF n
<1>4. all \in Seq(Readable) /\ Len(all) = n /\ \A k \in 1..n : all[k] = Dividing(terms[k])
  BY <1>1, <1>2, <1>3
<1>5. PICK f : Runs(f, terms)
  BY RunsExist
<1>6. /\ f \in [0..n -> FlagFree] /\ f[0] = one
      /\ \A k \in 1..n : f[k] = UnitTimes(f[k - 1], Worth(terms[k]))
  BY <1>5 DEF Runs, n
<1> DEFINE h == [k \in 0..n |-> UnitInv(f[k])]
<1>7. h \in [0..n -> FlagFree] /\ h[0] = one
  <2>1. \A k \in 0..n : UnitInv(f[k]) \in FlagFree
    BY <1>6, UnitTyped
  <2>2. 0 \in 0..n
    BY <1>1
  <2> QED  BY <2>1, <2>2, <1>6, GroupLaws
<1>8. ASSUME NEW k \in 1..n PROVE h[k] = UnitTimes(h[k - 1], Worth(all[k]))
  <2>1. k \in 0..n /\ k - 1 \in 0..n
    BY <1>1
  <2>2. f[k - 1] \in FlagFree /\ Worth(terms[k]) \in FlagFree
    BY <2>1, <1>1, <1>6, WorthTyped
  <2>3. UnitInv(f[k]) = UnitTimes(UnitInv(f[k - 1]), UnitInv(Worth(terms[k])))
    BY <2>2, <1>6, GroupLaws
  <2> QED  BY <2>1, <2>3, <1>3, <1>4
<1> HIDE DEF h, all
<1>9. Runs(h, all)
  BY <1>4, <1>7, <1>8 DEF Runs
<1>10. Product(all) = h[n] /\ Product(terms) = f[n]
  BY <1>4, <1>5, <1>9, ProductOfRuns DEF n
<1>11. h[n] = UnitInv(f[n])
  BY <1>1 DEF h
<1> QED  BY <1>4, <1>10, <1>11 DEF all

\* Reading a text none of whose terms clashes is taking their product.
THEOREM ReadIsProduct ==
  ASSUME NEW terms \in Seq(Readable), \A i \in DOMAIN terms : ~Clashes(terms[i])
  PROVE  ReadTerms(terms) = Product(terms)
<1> DEFINE n == Len(terms)
           Reads(g) == g = [k \in 0..n |->
                              IF k = 0 THEN one ELSE ReadNext(g[k - 1], terms[k])]
<1>1. n \in Nat /\ DOMAIN terms = 1..n /\ \A k \in 1..n : terms[k] \in Readable
  BY SeqShape
<1>2. ReadTerms(terms) = (CHOOSE g : Reads(g))[n]
  BY DEF ReadTerms
<1>3. PICK f : Runs(f, terms)
  BY RunsExist
<1>4. /\ f \in [0..n -> FlagFree] /\ f[0] = one
      /\ \A k \in 1..n : f[k] = UnitTimes(f[k - 1], Worth(terms[k]))
  BY <1>3 DEF Runs
<1> HIDE DEF n
<1>5. ASSUME NEW k \in 0..n
      PROVE  f[k] = IF k = 0 THEN one ELSE ReadNext(f[k - 1], terms[k])
  <2>1. CASE k = 0
    BY <2>1, <1>4
  <2>2. CASE k # 0
    <3>1. k \in 1..n /\ k - 1 \in 0..n
      BY <2>2, <1>1
    <3>2. f[k - 1] \in FlagFree /\ terms[k] \in Readable /\ ~Clashes(terms[k])
      BY <3>1, <1>1, <1>4
    <3> QED  BY <2>2, <3>1, <3>2, <1>4, ReadWorth
  <2> QED  BY <2>1, <2>2
<1>6. Reads(f)
  BY <1>4, <1>5
<1> DEFINE g == CHOOSE x : Reads(x)
<1>7. Reads(g)
  <2> HIDE DEF Reads
  <2> QED  BY <1>6
<1> HIDE DEF g
<1>e. ASSUME NEW k \in 0..n PROVE g[k] = IF k = 0 THEN one ELSE ReadNext(g[k - 1], terms[k])
  <2> DEFINE body == [i \in 0..n |-> IF i = 0 THEN one ELSE ReadNext(g[i - 1], terms[i])]
  <2>1. g = body
    BY <1>7
  <2>2. body[k] = IF k = 0 THEN one ELSE ReadNext(g[k - 1], terms[k])
    OBVIOUS
  <2> HIDE DEF body
  <2>3. g[k] = body[k]
    BY <2>1
  <2> QED  BY <2>2, <2>3
<1>8. ASSUME NEW k \in 1..n PROVE g[k] = ReadNext(g[k - 1], terms[k])
  BY <1>1, <1>e
<1>9. g[0] = one
  BY <1>1, <1>e
<1> HIDE DEF Reads
<1> DEFINE S == {k \in Nat : k <= n => f[k] = g[k]}
<1>10. 0 \in S
  BY <1>4, <1>9
<1>11. ASSUME NEW k \in Nat, k \in S PROVE k + 1 \in S
  <2> SUFFICES ASSUME k + 1 <= n PROVE f[k + 1] = g[k + 1]
    OBVIOUS
  <2>1. k + 1 \in 1..n /\ k + 1 \in 0..n /\ k + 1 # 0 /\ (k + 1) - 1 = k /\ f[k] = g[k]
    BY <1>1, <1>11
  <2> QED  BY <2>1, <1>5, <1>8
<1>12. Nat \subseteq S
  <2> HIDE DEF S
  <2> QED  BY <1>10, <1>11, InductionOnSet
<1>13. f[n] = g[n]
  BY <1>1, <1>12
<1> QED  BY <1>2, <1>3, <1>13, ProductOfRuns DEF n, g

(***************************************************************************)
(* Texts: Writes(text, u) when text is a text for u.                       *)
(***************************************************************************)
TextType == [number : NormalMult, terms : Seq(Readable)]
Value(text) == UnitTimes(Factor(text.number), Product(text.terms))
Writes(text, u) == text \in TextType /\ Value(text) = u

\* What a text of a number and of terms stands for.
LEMMA TextWrites ==
  ASSUME NEW m \in NormalMult, NEW terms \in Seq(Readable)
  PROVE  /\ Writes(Text(m, terms), UnitTimes(Factor(m), Product(terms)))
         /\ Writes(Bare(terms), Product(terms))
<1>1. Text(m, terms) \in TextType /\ Text(One, terms) \in TextType
  BY MultTyped DEF Text, TextType
<1>2. Value(Text(m, terms)) = UnitTimes(Factor(m), Product(terms))
      /\ Value(Text(One, terms)) = UnitTimes(Factor(One), Product(terms))
  BY DEF Value, Text
<1>3. UnitTimes(Factor(One), Product(terms)) = Product(terms)
  BY ProductTyped, FactorLaws, UnitLaws
<1> QED  BY <1>1, <1>2, <1>3 DEF Writes, Bare

(***************************************************************************)
(* Names.                                                                  *)
(***************************************************************************)
\* A name for a unit, with another sign, prefix and power.
LEMMA NamesShape ==
  ASSUME NEW term, NEW u, Names(term, u)
  PROVE  /\ term \in Readable /\ ~term.divides /\ term.prefix = 0
         /\ term.power \in Int \ {0} /\ SignedPower(term) = term.power
         /\ Known(term) \in FlagFree
         /\ term = Altered(term, FALSE, 0, term.power)
<1>1. term \in NameTerm /\ Known(term) \in FlagFree
  BY DEF Names
<1>2. term \in TermType
  BY <1>1 DEF NameTerm, TermType
<1>3. ~term.divides /\ term.prefix = 0 /\ term.power \in Int \ {0}
  BY <1>1 DEF NameTerm
<1>4. term = Altered(term, FALSE, 0, term.power)
  BY <1>1 DEF NameTerm, Altered
<1> QED  BY <1>1, <1>2, <1>3, <1>4 DEF Readable, SignedPower

\* A power of a power of ten.
LEMMA PrefixPower ==
  ASSUME NEW p \in Int, NEW k \in Int
  PROVE  MultPow(number(p, 0), k) = number(p * k, 0)
<1>1. \A i \in Int : number(i, 0) = Normal(FALSE, i, 0)
  BY DEF number, Normal
<1>2. /\ number(p, 0) \in NormalMult /\ number(p, 0).neg = FALSE
      /\ number(p, 0).ten = p /\ number(p, 0).sixty = 0
  BY DEF number, NormalMult
<1>3. MultPow(number(p, 0), k) = Normal(IfOdd(FALSE, k), p * k, 0 * k)
  BY <1>2, PowShape
<1>4. IfOdd(FALSE, k) = FALSE
  BY DEF IfOdd
<1>5. 0 * k = 0 /\ p * k \in Int
  OBVIOUS
<1> QED  BY <1>1, <1>3, <1>4, <1>5

\* Without a prefix, and with one.
LEMMA StemLaws ==
  ASSUME NEW term, Known(term) \in FlagFree
  PROVE  /\ Stem(0, term) = Known(term)
         /\ \A p \in Int, k \in Int :
              UnitPow(Stem(p, term), k)
                = UnitTimes(Factor(number(p * k, 0)), UnitPow(Known(term), k))
<1>1. number(0, 0) = One
  BY DEF One
<1>2. Stem(0, term) = Known(term)
  BY <1>1, FactorLaws, UnitLaws DEF Stem
<1>3. ASSUME NEW p \in Int, NEW k \in Int
      PROVE  UnitPow(Stem(p, term), k)
               = UnitTimes(Factor(number(p * k, 0)), UnitPow(Known(term), k))
  <2>1. number(p, 0) \in NormalMult
    BY PrefixTyped
  <2>2. MultPow(number(p, 0), k) = number(p * k, 0)
    BY PrefixPower
  <2>3. UnitPow(Factor(number(p, 0)), k) = Factor(number(p * k, 0))
    BY <2>1, <2>2, FactorLaws
  <2>4. Factor(number(p, 0)) \in FlagFree
    BY <2>1, UnitTyped
  <2> QED  BY <2>3, <2>4, UnitPowLaws DEF Stem
<1> QED  BY <1>2, <1>3

\* The name of a unit is worth the unit.
LEMMA NamesWorth ==
  ASSUME NEW term, NEW u, Names(term, u)
  PROVE  u \in FlagFree /\ Worth(term) = u
<1>1. Known(term) \in FlagFree /\ UnitPow(Known(term), term.power) = u
  BY DEF Names
<1>2. /\ term.prefix = 0 /\ SignedPower(term) = term.power /\ term.power \in Int
  BY NamesShape
<1>3. Stem(term.prefix, term) = Known(term)
  BY <1>1, <1>2, StemLaws
<1> QED  BY <1>1, <1>2, <1>3, UnitTyped DEF Worth

\* A name raised to a power.
LEMMA NamesRaised ==
  ASSUME NEW term, NEW u, Names(term, u), NEW n \in Int \ {0}
  PROVE  Names(Raised(term, n), UnitPow(u, n))
<1> DEFINE new == Raised(term, n)
<1>1. term \in NameTerm /\ term.power \in Int \ {0}
  BY DEF Names, NameTerm
<1>2. term.power * n \in Int \ {0}
  BY <1>1
<1>3. /\ new \in NameTerm /\ new.power = term.power * n
      /\ new.name = term.name /\ new.code = term.code
  BY <1>1, <1>2 DEF Raised, NameTerm
<1> HIDE DEF new
<1>4. Known(new) = Known(term)
  BY <1>3 DEF Known
<1>5. UnitPow(UnitPow(Known(term), term.power), n) = UnitPow(Known(term), term.power * n)
  BY <1>1, UnitPowLaws DEF Names
<1> QED  BY <1>3, <1>4, <1>5 DEF Names, new

\* The power of a name of power 1.
LEMMA TermRaised ==
  ASSUME NEW name, NEW u, Names(Term(name, 1), u), NEW k \in Int \ {0}
  PROVE  Raised(Term(name, 1), k) = Term(name, k)
<1> DEFINE raised == Raised(Term(name, 1), k)
           new == Term(name, k)
<1>1. Names(raised, UnitPow(u, k))
  BY NamesRaised
<1>2. raised.name = name /\ raised.code = 0 /\ raised.power = 1 * k /\ 1 * k = k
  BY DEF Raised, Term
<1>3. new = Altered(raised, FALSE, 0, k)
  BY <1>2 DEF Term, Altered
<1> HIDE DEF raised, new
<1>4. raised = Altered(raised, FALSE, 0, raised.power)
  BY <1>1, NamesShape
<1>5. raised.power = k
  BY <1>2
<1>6. raised = new
  BY <1>3, <1>4, <1>5
<1> QED  BY <1>6 DEF raised, new

\* A name of power 1 that takes a prefix.
LEMMA NamesPrefixed ==
  ASSUME NEW term, NEW u, Names(term, u), term.power = 1, NEW p \in SIPrefix \cup {0}
  PROVE  /\ [term EXCEPT !.prefix = p] \in Readable
         /\ Worth([term EXCEPT !.prefix = p]) = UnitTimes(Factor(number(p, 0)), u)
<1>1. /\ term \in Readable /\ term \in NameTerm /\ Known(term) \in FlagFree
      /\ Known(term) = u
  BY NamesShape, UnitPowLaws DEF Names
<1>2. [term EXCEPT !.prefix = p] = Altered(term, FALSE, p, 1)
  <2>1. term \in TermType /\ term.divides = FALSE /\ term.power = 1
    BY <1>1 DEF Readable, NameTerm
  <2>2. [term EXCEPT !.prefix = p] = Altered(term, term.divides, p, term.power)
    BY <2>1 DEF TermType, Altered
  <2> QED  BY <2>1, <2>2
<1>3. p \in Int /\ 1 \in Int \ {0}
  BY PrefixTyped
<1>4. /\ Altered(term, FALSE, p, 1) \in Readable
      /\ Worth(Altered(term, FALSE, p, 1)) = UnitPow(Stem(p, term), 1)
  BY <1>1, <1>3, AlteredWorth
<1>5. UnitPow(Stem(p, term), 1) = UnitTimes(Factor(number(p, 0)), u)
  <2>1. p * 1 = p /\ 1 \in Int
    BY <1>3
  <2> QED  BY <2>1, <1>1, <1>3, StemLaws, UnitPowLaws
<1> QED  BY <1>2, <1>4, <1>5

\* A term raised to a power, and one whose power loses its sign to a '/'.
LEMMA RaisedWorth ==
  ASSUME NEW term \in Readable
  PROVE  /\ \A n \in Int \ {0} : /\ Raised(term, n) \in Readable
                                 /\ Raised(term, n).prefix = term.prefix
                                 /\ Worth(Raised(term, n)) = UnitPow(Worth(term), n)
         /\ Dividing(Raised(term, -1)) \in Readable
         /\ Dividing(Raised(term, -1)).prefix = term.prefix
         /\ Worth(Dividing(Raised(term, -1))) = Worth(term)
<1> DEFINE stem == Stem(term.prefix, term)
<1>1. /\ term \in TermType /\ term.divides \in BOOLEAN /\ term.power \in Int \ {0}
      /\ term.prefix \in SIPrefix \cup {0}
  BY DEF Readable, TermType
<1>2. /\ stem \in FlagFree /\ SignedPower(term) \in Int \ {0}
      /\ Worth(term) = UnitPow(stem, SignedPower(term)) /\ Worth(term) \in FlagFree
  BY <1>1, StemTyped, WorthTyped DEF Worth
<1> HIDE DEF stem
<1>3. ASSUME NEW n \in Int \ {0}
      PROVE  /\ Raised(term, n) \in Readable
             /\ Raised(term, n).prefix = term.prefix
             /\ Worth(Raised(term, n)) = UnitPow(Worth(term), n)
  <2> DEFINE power == term.power * n
             new == Raised(term, n)
  <2>1. power \in Int \ {0}
    BY <1>1
  <2>2. new = Altered(term, term.divides, term.prefix, power) /\ new.prefix = term.prefix
    BY <1>1 DEF Raised, TermType, Altered
  <2>3. (IF term.divides THEN -power ELSE power) = SignedPower(term) * n
    <3>1. (-term.power) * n = -(term.power * n)
      BY <1>1
    <3> QED  BY <3>1 DEF SignedPower
  <2> HIDE DEF power, new
  <2>4. new \in Readable /\ Worth(new) = UnitPow(stem, SignedPower(term) * n)
    <3> DEFINE d == term.divides
    <3>1. d \in BOOLEAN /\ new = Altered(term, d, term.prefix, power)
      BY <1>1, <2>2
    <3>2. (IF d THEN -power ELSE power) = SignedPower(term) * n
      BY <2>3
    <3> HIDE DEF d
    <3>3. /\ new \in Readable
          /\ Worth(new) = UnitPow(Stem(term.prefix, term), IF d THEN -power ELSE power)
      BY <1>1, <2>1, <3>1, AlteredWorth
    <3> QED  BY <3>2, <3>3 DEF stem
  <2>5. UnitPow(Worth(term), n) = UnitPow(stem, SignedPower(term) * n)
    BY <1>2, UnitPowLaws
  <2> QED  BY <2>2, <2>4, <2>5 DEF new
<1>4. /\ Raised(term, -1) \in Readable /\ Raised(term, -1).prefix = term.prefix
      /\ Worth(Raised(term, -1)) = UnitInv(Worth(term))
  BY <1>2, <1>3, UnitPowLaws, -1 \in Int \ {0}
<1>5. Dividing(Raised(term, -1)).prefix = Raised(term, -1).prefix
  BY <1>4 DEF Dividing, Readable, TermType
<1>6. /\ Dividing(Raised(term, -1)) \in Readable
      /\ Worth(Dividing(Raised(term, -1))) = UnitInv(UnitInv(Worth(term)))
  BY <1>4, DividingWorth
<1> QED  BY <1>2, <1>3, <1>4, <1>5, <1>6, GroupLaws

\* What find_unit gives for a unit is a name of it.
LEMMA NameOfNames ==
  ASSUME TablesReadBack, NEW u \in FlagFree, HasName(u)
  PROVE  Names(NameOf(u), u)
<1>1. CASE Given(u) # {}
  <2> DEFINE i == CHOOSE i \in Given(u) : TRUE
  <2>1. i \in DOMAIN UserName /\ UserName[i].unit = u
    BY <1>1 DEF Given
  <2>2. UserName \in Seq(NamedUnit)
    BY DEF TablesReadBack
  <2> HIDE DEF i
  <2>3. UserName[i] \in NamedUnit
    BY <2>1, <2>2, SeqShape
  <2>4. NameOf(u) = UserName[i].term
    BY <1>1 DEF NameOf, i
  <2> QED  BY <2>1, <2>3, <2>4 DEF NamedUnit
<1>2. CASE Given(u) = {}
  BY <1>2 DEF HasName, NameOf, TablesReadBack
<1> QED  BY <1>1, <1>2

(***************************************************************************)
(* Roots and prefixes.                                                     *)
(***************************************************************************)
LEMMA MultRootLaws ==
  ASSUME NEW m \in NormalMult, NEW n \in 1..3, HasMultRoot(m, n)
  PROVE  MultRoot(m, n) \in NormalMult /\ MultPow(MultRoot(m, n), n) = m
<1> DEFINE r == MultRoot(m, n)
<1>1. /\ m = Normal(m.neg, m.ten, m.sixty)
      /\ m.neg \in BOOLEAN /\ m.ten \in Int /\ m.sixty \in Int
  BY NormalShape
<1>2. /\ m.ten \div n \in Int /\ m.sixty \div n \in Int
      /\ (m.ten \div n) * n = m.ten /\ (m.sixty \div n) * n = m.sixty
  <2>1. m.ten % n = 0 /\ m.sixty % n = 0
    BY DEF HasMultRoot
  <2>2. CASE n = 1  BY <1>1, <2>1, <2>2
  <2>3. CASE n = 2  BY <1>1, <2>1, <2>3
  <2>4. CASE n = 3  BY <1>1, <2>1, <2>4
  <2> QED  BY <2>2, <2>3, <2>4
<1>3. IfOdd(m.neg, n) = m.neg
  BY <1>1 DEF HasMultRoot, IfOdd
<1>4. r = Normal(m.neg, m.ten \div n, m.sixty \div n)
  BY DEF MultRoot, number, Normal
<1>5. r \in NormalMult
  BY <1>1, <1>2, <1>4, NormalTyped
<1>6. r.neg = m.neg /\ r.ten = m.ten \div n /\ r.sixty = m.sixty \div n
  BY <1>4 DEF Normal
<1> HIDE DEF r
<1>7. MultPow(r, n) = Normal(IfOdd(r.neg, n), r.ten * n, r.sixty * n)
  BY <1>5, PowShape
<1> QED  BY <1>1, <1>2, <1>3, <1>5, <1>6, <1>7 DEF r

\* The inverse of a multiplier has the roots that the multiplier has.
LEMMA MultInverseLaws ==
  ASSUME NEW m \in NormalMult
  PROVE  /\ MultInv(MultInv(m)) = m
         /\ \A n \in 1..3 : HasMultRoot(m, n) => HasMultRoot(MultInv(m), n)
<1>1. MultInv(m) \in NormalMult
  BY MultTyped
<1>2. MultInv(MultInv(m)) = m
  <2>1. MultPow(MultPow(m, -1), -1) = MultPow(m, (-1) * (-1)) /\ MultPow(m, 1) = m
    <3>1. -1 \in Int /\ m \in NormalMult
      OBVIOUS
    <3> QED  BY <3>1, MultPowLaws
  <2> QED  BY <2>1 DEF MultInv
<1>3. ASSUME NEW n \in 1..3, HasMultRoot(m, n) PROVE HasMultRoot(MultInv(m), n)
  <2>1. /\ MultInv(m).neg = m.neg /\ MultInv(m).ten = -m.ten /\ MultInv(m).sixty = -m.sixty
    BY InvShape DEF Normal
  <2>2. m.ten \in Int /\ m.sixty \in Int /\ m.ten % n = 0 /\ m.sixty % n = 0
    BY <1>3, NormalShape DEF HasMultRoot
  <2>3. (-m.ten) % n = 0 /\ (-m.sixty) % n = 0
    <3>1. CASE n = 1  BY <2>2, <3>1
    <3>2. CASE n = 2  BY <2>2, <3>2
    <3>3. CASE n = 3  BY <2>2, <3>3
    <3> QED  BY <3>1, <3>2, <3>3
  <2> QED  BY <1>3, <2>1, <2>3 DEF HasMultRoot
<1> QED  BY <1>2, <1>3

\* The power of the root of a unit is the unit.
LEMMA UnitRootLaws ==
  ASSUME NEW u \in FlagFree, NEW n \in 2..3, HasUnitRoot(u, n)
  PROVE  UnitRoot(u, n) \in FlagFree /\ UnitPow(UnitRoot(u, n), n) = u
<1> DEFINE e == u.base.exp
           r == [b \in Base |-> e[b] \div n]
<1>1. /\ u.mult \in NormalMult /\ u.base \in FlagFreeBase /\ n \in 1..3
      /\ HasMultRoot(u.mult, n) /\ hasValidRoot(u.base, n)
  BY UnitShape DEF HasUnitRoot
<1>2. u.base = Free(e) /\ e \in Exponents /\ u.base.flags = {}
  BY <1>1, FreeShape
<1>n. Abs(n) = n /\ n \in Int
  BY DEF Abs
<1>3. \A b \in Base : e[b] % n = 0
  BY <1>1, <1>n DEF hasValidRoot
<1> HIDE DEF e
<1>4. ASSUME NEW b \in Base
      PROVE  /\ e[b] \div n \in Int /\ (e[b] \div n) * n = e[b]
             /\ MinVal(b) <= e[b] \div n /\ e[b] \div n <= MaxVal(b)
  <2>1. e[b] \in Int /\ e[b] % n = 0 /\ MinVal(b) <= e[b] /\ e[b] <= MaxVal(b)
    BY <1>2, <1>3 DEF Exponents
  <2>2. MinVal(b) \in Int /\ MaxVal(b) \in Int /\ MinVal(b) <= 0 /\ 0 <= MaxVal(b)
    BY DEF MinVal, MaxVal
  <2>3. CASE n = 2  BY <2>1, <2>2, <2>3
  <2>4. CASE n = 3  BY <2>1, <2>2, <2>4
  <2> QED  BY <2>3, <2>4
<1>5. r \in Exponents
  BY <1>4 DEF Exponents
<1>6. Root(u.base, n) = Free(r)
  <2>1. Root(u.base, n) = unit_data([b \in Base |-> ExactQuotient(e[b], n)], {})
    BY <1>1, <1>2 DEF Root, e
  <2>2. [b \in Base |-> ExactQuotient(e[b], n)] = r
    BY DEF ExactQuotient
  <2>3. unit_data(r, {}) = Free(Wrapped(r))
    BY DEF unit_data, Free, Wrapped
  <2> HIDE DEF r
  <2> QED  BY <2>1, <2>2, <2>3, <1>5, WrappedTyped
<1>7. [b \in Base |-> r[b] * n] = e
  BY <1>2, <1>4 DEF Exponents
<1> HIDE DEF r
<1>8. Pow(Free(r), n) = u.base
  <2>1. Pow(Free(r), n) = Free(Wrapped([b \in Base |-> r[b] * n]))
    BY <1>5, <1>n, FreeOperations
  <2> QED  BY <2>1, <1>2, <1>7, WrappedTyped
<1>9. MultRoot(u.mult, n) \in NormalMult /\ MultPow(MultRoot(u.mult, n), n) = u.mult
  BY <1>1, MultRootLaws
<1>10. UnitRoot(u, n) = precise_unit(MultRoot(u.mult, n), Free(r))
  BY <1>6 DEF UnitRoot
<1>11. UnitRoot(u, n) \in FlagFree
  BY <1>5, <1>9, <1>10, FreeShape, UnitShape
<1>12. UnitPow(UnitRoot(u, n), n) = u
  BY <1>8, <1>9, <1>10, UnitShape DEF UnitPow
<1> QED  BY <1>11, <1>12

\* A name with the prefix that is put on it for a number.
LEMMA PrefixWorth ==
  ASSUME NEW mult \in NormalMult, NEW term \in Readable, term.prefix = 0,
         TakesPrefix(mult, SignedPower(term))
  PROVE  LET new == [term EXCEPT !.prefix = PrefixRoot(mult, SignedPower(term)).ten]
         IN new \in Readable /\ Worth(new) = UnitTimes(Factor(mult), Worth(term))
<1> DEFINE p == SignedPower(term)
           root == PrefixRoot(mult, p)
           of == IF p < 0 THEN MultInv(mult) ELSE mult
           new == [term EXCEPT !.prefix = root.ten]
<1>1. p \in Int \ {0} /\ term \in TermType /\ Known(term) \in FlagFree
  BY WorthTyped DEF Readable
<1>2. Worth(term) = UnitPow(Known(term), p)
  BY <1>1, StemLaws DEF Worth
<1>3. new = Altered(term, term.divides, root.ten, term.power)
  BY <1>1 DEF TermType, Altered
<1>4. /\ Abs(p) \in 1..3 /\ HasMultRoot(mult, Abs(p)) /\ IsSIPrefix(root)
      /\ p = IF p < 0 THEN -Abs(p) ELSE Abs(p)
  BY <1>1 DEF TakesPrefix, Abs
<1>5. of \in NormalMult /\ HasMultRoot(of, Abs(p)) /\ root = MultRoot(of, Abs(p))
  BY <1>4, MultTyped, MultInverseLaws DEF PrefixRoot
<1>6. root \in NormalMult /\ MultPow(root, Abs(p)) = of
  BY <1>4, <1>5, MultRootLaws
<1>7. root.ten \in SIPrefix /\ root = number(root.ten, 0) /\ root.ten \in Int
  <2>1. root.ten \in SIPrefix /\ root.neg = FALSE /\ root.sixty = 0
    BY <1>4, <1>6, NormalShape DEF IsSIPrefix
  <2>2. root = Normal(root.neg, root.ten, root.sixty)
    BY <1>6, NormalShape
  <2>3. number(root.ten, 0) = Normal(FALSE, root.ten, 0)
    BY DEF number, Normal
  <2> QED  BY <2>1, <2>2, <2>3, PrefixTyped
<1>8. MultPow(root, p) = mult
  <2>1. CASE p < 0
    <3>1. MultPow(MultPow(root, Abs(p)), -1) = MultPow(root, Abs(p) * (-1))
      <4>1. Abs(p) \in Int /\ -1 \in Int /\ root \in NormalMult
        BY <1>4, <1>6
      <4> HIDE DEF root
      <4> QED  BY <4>1, MultPowLaws
    <3>2. Abs(p) * (-1) = p
      BY <1>4, <2>1
    <3>3. MultPow(root, p) = MultInv(MultInv(mult))
      BY <3>1, <3>2, <1>6, <2>1 DEF MultInv
    <3> QED  BY <3>3, MultInverseLaws
  <2>2. CASE ~(p < 0)
    BY <1>4, <1>6, <2>2
  <2> QED  BY <2>1, <2>2
<1> HIDE DEF p, root, of
<1>9. term.divides \in BOOLEAN /\ term.power \in Int \ {0}
      /\ p = IF term.divides THEN -term.power ELSE term.power
  BY <1>1 DEF TermType, SignedPower, p
<1>10. new \in Readable /\ Worth(new) = UnitPow(Stem(root.ten, term), p)
  BY <1>3, <1>7, <1>9, AlteredWorth
<1>11. UnitPow(Stem(root.ten, term), p)
         = UnitTimes(Factor(number(root.ten * p, 0)), UnitPow(Known(term), p))
  BY <1>1, <1>7, StemLaws
<1>12. number(root.ten * p, 0) = mult
  <2>1. MultPow(number(root.ten, 0), p) = number(root.ten * p, 0)
    BY <1>1, <1>7, PrefixPower
  <2> QED  BY <2>1, <1>7, <1>8
<1> QED  BY <1>2, <1>10, <1>11, <1>12 DEF p, root

(***************************************************************************)
(* A number and terms, of which the first may take a prefix.               *)
(***************************************************************************)
LEMMA PrefixedWrites ==
  ASSUME NEW mult \in NormalMult, NEW terms \in Seq(Readable), terms # <<>>,
         terms[1].prefix = 0, NEW noPrefix
  PROVE  Writes(Prefixed(mult, terms, noPrefix), UnitTimes(Factor(mult), Product(terms)))
<1> DEFINE p == SignedPower(terms[1])
           new == [terms[1] EXCEPT !.prefix = PrefixRoot(mult, p).ten]
<1>1. CASE ~noPrefix /\ TakesPrefix(mult, p)
  <2>1. /\ terms[1] \in Readable /\ Tail(terms) \in Seq(Readable)
        /\ Product(terms) = UnitTimes(Worth(terms[1]), Product(Tail(terms)))
    BY ProductOfFirst
  <2>2. new \in Readable /\ Worth(new) = UnitTimes(Factor(mult), Worth(terms[1]))
    BY <1>1, <2>1, PrefixWorth
  <2>3. Prefixed(mult, terms, noPrefix) = Bare([terms EXCEPT ![1] = new])
    BY <1>1 DEF Prefixed, PutFirst
  <2> HIDE DEF new
  <2>4. /\ [terms EXCEPT ![1] = new] \in Seq(Readable)
        /\ Product([terms EXCEPT ![1] = new]) = UnitTimes(Worth(new), Product(Tail(terms)))
    BY <2>2, ProductOfFirst
  <2>5. /\ Factor(mult) \in FlagFree /\ Worth(terms[1]) \in FlagFree
        /\ Product(Tail(terms)) \in FlagFree
    BY <2>1, UnitTyped, WorthTyped, ProductTyped
  <2>6. Product([terms EXCEPT ![1] = new]) = UnitTimes(Factor(mult), Product(terms))
    BY <2>1, <2>2, <2>4, <2>5, UnitLaws
  <2> QED  BY <2>3, <2>4, <2>6, TextWrites, MultTyped
<1>2. CASE ~(~noPrefix /\ TakesPrefix(mult, p))
  <2>1. Prefixed(mult, terms, noPrefix) = Text(mult, terms)
    BY <1>2 DEF Prefixed
  <2> QED  BY <2>1, TextWrites
<1> QED  BY <1>1, <1>2

\* The first term is changed to one that is worth a power of ten less.
LEMMA ChangedWrites ==
  ASSUME NEW mult \in NormalMult, NEW scale \in NormalMult,
         NEW terms \in Seq(Readable), terms # <<>>,
         NEW t \in Readable, t.prefix = 0,
         Worth(terms[1]) = UnitTimes(Factor(scale), Worth(t))
  PROVE  Writes(Prefixed(MultTimes(mult, scale), PutFirst(t, terms), FALSE),
                UnitTimes(Factor(mult), Product(terms)))
<1> DEFINE new == PutFirst(t, terms)
           rest == Product(Tail(terms))
<1>1. /\ terms[1] \in Readable /\ Tail(terms) \in Seq(Readable)
      /\ Product(terms) = UnitTimes(Worth(terms[1]), rest)
      /\ new \in Seq(Readable) /\ Product(new) = UnitTimes(Worth(t), rest)
      /\ new = <<t>> \o Tail(terms)
  BY ProductOfFirst DEF PutFirst
<1>2. new # <<>> /\ new[1] = t
  BY <1>1
<1>3. MultTimes(mult, scale) \in NormalMult
  BY MultTyped
<1>4. /\ Factor(mult) \in FlagFree /\ Factor(scale) \in FlagFree
      /\ Worth(t) \in FlagFree /\ rest \in FlagFree
      /\ Factor(MultTimes(mult, scale)) = UnitTimes(Factor(mult), Factor(scale))
  <2>1. rest \in FlagFree
    BY <1>1, ProductTyped
  <2> HIDE DEF rest
  <2> QED  BY <2>1, UnitTyped, WorthTyped, FactorLaws
<1> HIDE DEF new, rest
<1>5. UnitTimes(Factor(MultTimes(mult, scale)), Product(new))
        = UnitTimes(Factor(mult), Product(terms))
  <2> DEFINE a == Factor(mult)
             c == Factor(scale)
             w == Worth(t)
  <2>1. UnitTimes(UnitTimes(a, c), UnitTimes(w, rest))
          = UnitTimes(a, UnitTimes(c, UnitTimes(w, rest)))
    BY <1>4, UnitTyped, UnitLaws
  <2>2. UnitTimes(c, UnitTimes(w, rest)) = UnitTimes(UnitTimes(c, w), rest)
    BY <1>4, UnitLaws
  <2> QED  BY <2>1, <2>2, <1>1, <1>4
<1>6. Writes(Prefixed(MultTimes(mult, scale), new, FALSE),
             UnitTimes(Factor(MultTimes(mult, scale)), Product(new)))
  BY <1>1, <1>2, <1>3, PrefixedWrites
<1> QED  BY <1>5, <1>6 DEF new

\* The liter and the gram for the cubic meter and the kilogram.
LEMMA RewrittenNames ==
  ASSUME TablesReadBack, NEW term \in Readable, ~term.divides, term.prefix = 0
  PROVE  /\ \A name \in {"L", "g"}, k \in {-1, 1} :
              Term(name, k) \in Readable /\ Term(name, k).prefix = 0
         /\ term.name = "m" /\ term.power = 3
              => Worth(term) = UnitTimes(Factor(number(3, 0)), Worth(Term("L", 1)))
         /\ term.name = "m" /\ term.power = -3
              => Worth(term) = UnitTimes(Factor(number(-3, 0)), Worth(Term("L", -1)))
         /\ term.name = "kg" /\ term.power = 1
              => Worth(term) = UnitTimes(Factor(number(3, 0)), Worth(Term("g", 1)))
         /\ term.name = "kg" /\ term.power = -1
              => Worth(term) = UnitTimes(Factor(number(-3, 0)), Worth(Term("g", -1)))
<1> DEFINE m == Axis("meter")
           kg == Axis("kilogram")
           Ten(n) == Factor(number(n, 0))
<1>1. /\ Names(Term("m", 1), m) /\ Names(Term("kg", 1), kg)
      /\ Names(Term("L", 1), TenTo(-3, UnitPow(m, 3)))
      /\ Names(Term("g", 1), TenTo(-3, kg))
  <2>1. 1 \in DOMAIN RawNames /\ RawNames[1] = <<"meter", "m">>
        /\ 2 \in DOMAIN RawNames /\ RawNames[2] = <<"kilogram", "kg">>
    BY DEF RawNames
  <2> QED  BY <2>1 DEF TablesReadBack
<1> HIDE DEF m, kg
<1>2. ASSUME NEW name, NEW u, Names(Term(name, 1), u)
      PROVE  /\ u \in FlagFree /\ Known(Term(name, 1)) = u
             /\ Term(name, 1) \in Readable /\ Worth(Term(name, 1)) = u
             /\ Term(name, -1) \in Readable /\ Worth(Term(name, -1)) = UnitInv(u)
             /\ Term(name, 1).prefix = 0 /\ Term(name, -1).prefix = 0
  <2>1. /\ Term(name, 1).power = 1 /\ Term(name, 1).prefix = 0 /\ Term(name, 1).name = name
        /\ Term(name, -1).power = -1 /\ Term(name, -1).prefix = 0 /\ Term(name, -1).name = name
        /\ Term(name, 1).code = Term(name, -1).code
    BY DEF Term
  <2>2. u \in FlagFree /\ Worth(Term(name, 1)) = u
    BY <1>2, NamesWorth
  <2>3. Term(name, 1) \in Readable /\ Known(Term(name, 1)) \in FlagFree
    BY <1>2, NamesShape
  <2>4. Known(Term(name, 1)) = u /\ Known(Term(name, -1)) = u
    BY <1>2, <2>1, <2>3, UnitPowLaws DEF Names, Known
  <2>5. Term(name, -1) \in NameTerm
    <3>1. name \in Vocabulary
      BY <2>1, <2>3 DEF Readable, TermType
    <3> QED  BY <3>1 DEF Term, NameTerm
  <2>6. UnitPow(u, -1) = UnitInv(u)
    BY <2>2, UnitPowLaws
  <2>7. Names(Term(name, -1), UnitInv(u))
    BY <2>1, <2>2, <2>4, <2>5, <2>6 DEF Names
  <2>8. Term(name, -1) \in Readable
    BY <2>7, NamesShape
  <2>9. Worth(Term(name, -1)) = UnitInv(u)
    BY <2>7, NamesWorth
  <2> QED  BY <2>1, <2>2, <2>3, <2>4, <2>8, <2>9
<1>3. ASSUME NEW v \in FlagFree, NEW n \in Int, NEW k \in Int, n + k = 0
      PROVE  /\ UnitTimes(Ten(n), UnitTimes(Ten(k), v)) = v
             /\ UnitInv(UnitTimes(Ten(n), v)) = UnitTimes(Ten(k), UnitInv(v))
             /\ UnitTimes(Ten(n), v) \in FlagFree
  <2>1. number(n, 0) \in NormalMult /\ number(k, 0) \in NormalMult
    BY PrefixTyped
  <2>2. MultInv(number(n, 0)) = number(k, 0)
    <3>1. n * (-1) = k /\ -1 \in Int
      BY <1>3
    <3> QED  BY <3>1, PrefixPower DEF MultInv
  <2>3. MultTimes(number(n, 0), number(k, 0)) = One
    BY <2>1, <2>2, MultLaws
  <2>4. Ten(n) \in FlagFree /\ Ten(k) \in FlagFree /\ UnitTimes(Ten(n), Ten(k)) = one
        /\ UnitInv(Ten(n)) = Ten(k)
    BY <2>1, <2>2, <2>3, UnitTyped, FactorLaws
  <2> HIDE DEF Ten
  <2>5. UnitTimes(Ten(n), UnitTimes(Ten(k), v)) = UnitTimes(UnitTimes(Ten(n), Ten(k)), v)
    BY <2>4, UnitLaws
  <2> QED  BY <2>4, <2>5, UnitTyped, UnitLaws, GroupLaws
<1>4. Known(term) \in FlagFree /\ Worth(term) = UnitPow(Known(term), term.power)
  BY StemLaws DEF Readable, Worth, SignedPower
<1>5. /\ \A u : TenTo(-3, u) = UnitTimes(Ten(-3), u)
      /\ m \in FlagFree /\ kg \in FlagFree
      /\ term.name = "m" => Known(term) = m
      /\ term.name = "kg" => Known(term) = kg
  <2>1. \A u : TenTo(-3, u) = UnitTimes(Ten(-3), u)
    BY DEF TenTo, Factor
  <2>2. \A name \in {"m", "kg"} : term.name = name => Known(term) = Known(Term(name, 1))
    BY DEF Known, Term
  <2> QED  BY <1>1, <1>2, <2>1, <2>2
<1> HIDE DEF Ten
<1>z. 3 \in Int /\ -3 \in Int /\ 3 + (-3) = 0 /\ (-3) + 3 = 0
  OBVIOUS
<1>6. /\ Worth(Term("L", 1)) = UnitTimes(Ten(-3), UnitPow(m, 3))
      /\ Worth(Term("L", -1)) = UnitInv(UnitTimes(Ten(-3), UnitPow(m, 3)))
      /\ Worth(Term("g", 1)) = UnitTimes(Ten(-3), kg)
      /\ Worth(Term("g", -1)) = UnitInv(UnitTimes(Ten(-3), kg))
  BY <1>1, <1>2, <1>5
<1>7. UnitPow(m, 3) \in FlagFree /\ UnitInv(UnitPow(m, 3)) = UnitPow(m, -3)
      /\ UnitPow(m, -3) \in FlagFree
  <2>1. UnitPow(m, 3) \in FlagFree /\ UnitPow(m, -3) \in FlagFree
    BY <1>5, UnitTyped, 3 \in Int, -3 \in Int
  <2>2. UnitPow(UnitPow(m, 3), -1) = UnitPow(m, 3 * (-1)) /\ 3 * (-1) = -3
    BY <1>5, UnitPowLaws, 3 \in Int, -1 \in Int
  <2> QED  BY <2>1, <2>2, UnitPowLaws
<1>8. ASSUME term.name = "m", term.power = 3
      PROVE  Worth(term) = UnitTimes(Ten(3), Worth(Term("L", 1)))
  <2>1. UnitTimes(Ten(3), UnitTimes(Ten(-3), UnitPow(m, 3))) = UnitPow(m, 3)
    BY <1>z, <1>3, <1>7
  <2> QED  BY <2>1, <1>4, <1>5, <1>6, <1>8
<1>9. ASSUME term.name = "m", term.power = -3
      PROVE  Worth(term) = UnitTimes(Ten(-3), Worth(Term("L", -1)))
  <2>1. UnitInv(UnitTimes(Ten(-3), UnitPow(m, 3))) = UnitTimes(Ten(3), UnitPow(m, -3))
    BY <1>z, <1>3, <1>7
  <2>2. UnitTimes(Ten(-3), UnitTimes(Ten(3), UnitPow(m, -3))) = UnitPow(m, -3)
    BY <1>z, <1>3, <1>7
  <2> QED  BY <2>1, <2>2, <1>4, <1>5, <1>6, <1>9
<1>10. ASSUME term.name = "kg", term.power = 1
       PROVE  Worth(term) = UnitTimes(Ten(3), Worth(Term("g", 1)))
  <2>1. UnitTimes(Ten(3), UnitTimes(Ten(-3), kg)) = kg
    BY <1>z, <1>3, <1>5
  <2> QED  BY <2>1, <1>4, <1>5, <1>6, <1>10, UnitPowLaws
<1>11. ASSUME term.name = "kg", term.power = -1
       PROVE  Worth(term) = UnitTimes(Ten(-3), Worth(Term("g", -1)))
  <2>1. UnitInv(UnitTimes(Ten(-3), kg)) = UnitTimes(Ten(3), UnitInv(kg))
    BY <1>z, <1>3, <1>5
  <2>2. UnitTimes(Ten(-3), UnitTimes(Ten(3), UnitInv(kg))) = UnitInv(kg)
    <3>1. UnitInv(kg) \in FlagFree
      BY <1>5, UnitTyped
    <3> QED  BY <3>1, <1>z, <1>3
  <2> QED  BY <2>1, <2>2, <1>4, <1>5, <1>6, <1>11, UnitPowLaws
<1>12. \A name \in {"L", "g"}, k \in {-1, 1} :
         Term(name, k) \in Readable /\ Term(name, k).prefix = 0
  BY <1>1, <1>2
<1> QED  BY <1>8, <1>9, <1>10, <1>11, <1>12 DEF Ten

\* Whatever name generateUnitSequence changes, the value stays.
LEMMA SequenceWrites ==
  ASSUME TablesReadBack, NEW mult \in NormalMult, NEW terms \in Seq(Readable),
         terms # <<>>, terms[1].prefix = 0
  PROVE  Writes(generateUnitSequence(mult, terms), UnitTimes(Factor(mult), Product(terms)))
<1> DEFINE first == terms[1]
           Is(name, power) == ~first.divides /\ first.name = name /\ first.power = power
           Changed(name, power) == PutFirst(Term(name, power), terms)
           Kg == ~first.divides /\ first.name \in DOMAIN KgTail
           whole == UnitTimes(Factor(mult), Product(terms))
<1>1. first \in Readable /\ first.prefix = 0
  BY ProductOfFirst
<1>2. number(3, 0) \in NormalMult /\ number(-3, 0) \in NormalMult
  BY PrefixTyped, 3 \in Int, -3 \in Int
<1>3. /\ Larger(mult) = MultTimes(mult, number(3, 0))
      /\ Smaller(mult) = MultTimes(mult, number(-3, 0))
  <2>1. MultInv(number(3, 0)) = number(-3, 0)
    <3>1. 3 * (-1) = -3
      OBVIOUS
    <3>2. MultPow(number(3, 0), -1) = number(3 * (-1), 0)
      BY PrefixPower, 3 \in Int, -1 \in Int
    <3> QED  BY <3>1, <3>2 DEF MultInv
  <2> QED  BY <2>1 DEF Larger, Smaller, Thousand
<1>4. ASSUME Is("m", 3)
      PROVE  Writes(Prefixed(Larger(mult), Changed("L", 1), FALSE), whole)
  <2>1. Term("L", 1) \in Readable /\ Term("L", 1).prefix = 0
        /\ Worth(first) = UnitTimes(Factor(number(3, 0)), Worth(Term("L", 1)))
    BY <1>1, <1>4, RewrittenNames
  <2> QED  BY <2>1, <1>2, <1>3, ChangedWrites
<1>5. ASSUME Is("m", -3)
      PROVE  Writes(Prefixed(Smaller(mult), Changed("L", -1), FALSE), whole)
  <2>1. Term("L", -1) \in Readable /\ Term("L", -1).prefix = 0
        /\ Worth(first) = UnitTimes(Factor(number(-3, 0)), Worth(Term("L", -1)))
    BY <1>1, <1>5, RewrittenNames
  <2> QED  BY <2>1, <1>2, <1>3, ChangedWrites
<1>6. ASSUME Is("kg", -1)
      PROVE  Writes(Prefixed(Smaller(mult), Changed("g", -1), FALSE), whole)
  <2>1. Term("g", -1) \in Readable /\ Term("g", -1).prefix = 0
        /\ Worth(first) = UnitTimes(Factor(number(-3, 0)), Worth(Term("g", -1)))
    BY <1>1, <1>6, RewrittenNames
  <2> QED  BY <2>1, <1>2, <1>3, ChangedWrites
<1>7. ASSUME Kg, first.name = "kg" => first.power = 1
      PROVE  Writes(Prefixed(Larger(mult), Changed(KgTail[first.name], first.power), FALSE),
                    whole)
  <2>1. first.name = "kg" /\ first.power = 1 /\ ~first.divides /\ KgTail[first.name] = "g"
    BY <1>7, KgAssumption DEF TablesReadBack
  <2>2. Term("g", 1) \in Readable /\ Term("g", 1).prefix = 0
        /\ Worth(first) = UnitTimes(Factor(number(3, 0)), Worth(Term("g", 1)))
    BY <1>1, <2>1, RewrittenNames
  <2>3. Writes(Prefixed(MultTimes(mult, number(3, 0)), PutFirst(Term("g", 1), terms), FALSE), whole)
    BY <2>2, <1>2, ChangedWrites
  <2> QED  BY <2>1, <2>3, <1>3
<1>8. Writes(Prefixed(mult, terms, Kg), whole)
  BY PrefixedWrites
<1> HIDE DEF whole
<1> DEFINE g == generateUnitSequence(mult, terms)
           A == Is("m", 3) /\ AtMostTenth(mult)
           B == Is("m", -3) /\ MoreThanHundred(mult)
           C == Is("kg", -1) /\ MoreThanHundred(mult)
           D == /\ Kg /\ ~Is("kg", -1) /\ AtMostTenth(mult)
                /\ first.name = "kg" => first.power = 1
           gA == Prefixed(Larger(mult), Changed("L", 1), FALSE)
           gB == Prefixed(Smaller(mult), Changed("L", -1), FALSE)
           gC == Prefixed(Smaller(mult), Changed("g", -1), FALSE)
           gD == Prefixed(Larger(mult), Changed(KgTail[first.name], first.power), FALSE)
           gE == Prefixed(mult, terms, Kg)
<1>9. g = CASE A -> gA [] B -> gB [] C -> gC [] D -> gD [] OTHER -> gE
  BY DEF generateUnitSequence
<1>10. /\ A => Writes(gA, whole)
       /\ B => Writes(gB, whole)
       /\ C => Writes(gC, whole)
       /\ D => Writes(gD, whole)
       /\ Writes(gE, whole)
  BY <1>4, <1>5, <1>6, <1>7, <1>8
<1> HIDE DEF g, A, B, C, D, gA, gB, gC, gD, gE
<1>11. Writes(g, whole)
  BY <1>9, <1>10
<1> QED  BY <1>11 DEF g, whole

(***************************************************************************)
(* The base units one by one.                                              *)
(***************************************************************************)
\* The part of a unit that is in some base units.
Some(e, S) == [b \in Base |-> IF b \in S THEN e[b] ELSE 0]
SumOf(e, f) == [b \in Base |-> e[b] + f[b]]
MultipleOf(e, k) == [b \in Base |-> e[b] * k]
Only(u, S) == Plain(Free(Some(u.base.exp, S)))

\* A part of the exponents, and the sum of two parts.
LEMMA SomeLaws ==
  ASSUME NEW e \in Exponents
  PROVE  /\ \A S : Some(e, S) \in Exponents
         /\ \A S, T : S \cap T = {} => SumOf(Some(e, S), Some(e, T)) = Some(e, S \cup T)
         /\ Some(e, {}) = [b \in Base |-> 0]
         /\ \A S : (\A b \in Base \ S : e[b] = 0) => Some(e, S) = e
<1>1. e \in [Base -> Int] /\ \A b \in Base : e[b] \in Int /\ MinVal(b) <= e[b] /\ e[b] <= MaxVal(b)
  BY DEF Exponents
<1>2. \A b \in Base : MinVal(b) <= 0 /\ 0 <= MaxVal(b)
  BY DEF MinVal, MaxVal
<1>3. ASSUME NEW S PROVE Some(e, S) \in Exponents
  <2>1. ASSUME NEW b \in Base
        PROVE  /\ Some(e, S)[b] \in Int
               /\ MinVal(b) <= Some(e, S)[b] /\ Some(e, S)[b] <= MaxVal(b)
    <3>1. Some(e, S)[b] = e[b] \/ Some(e, S)[b] = 0
      BY DEF Some
    <3> QED  BY <1>1, <1>2, <3>1
  <2>2. Some(e, S) \in [Base -> Int]
    BY <1>1 DEF Some
  <2> QED  BY <2>1, <2>2 DEF Exponents
<1>4. ASSUME NEW S, NEW T, S \cap T = {}
      PROVE  SumOf(Some(e, S), Some(e, T)) = Some(e, S \cup T)
  <2>1. ASSUME NEW b \in Base
        PROVE  Some(e, S)[b] + Some(e, T)[b] = IF b \in S \cup T THEN e[b] ELSE 0
    <3>1. e[b] \in Int /\ ~(b \in S /\ b \in T)
      BY <1>1, <1>4
    <3> QED  BY <3>1 DEF Some
  <2> QED  BY <2>1 DEF Some, SumOf
<1>5. Some(e, {}) = [b \in Base |-> 0]
  BY DEF Some
<1>6. ASSUME NEW S, \A b \in Base \ S : e[b] = 0 PROVE Some(e, S) = e
  <2>1. \A b \in Base : (IF b \in S THEN e[b] ELSE 0) = e[b]
    BY <1>6
  <2>2. e = [b \in Base |-> e[b]]
    BY <1>1
  <2> QED  BY <2>1, <2>2 DEF Some
<1> QED  BY <1>3, <1>4, <1>5, <1>6

\* Products and powers add and multiply exponents.
LEMMA FreeSums ==
  /\ \A e, f \in Exponents : Times(Free(e), Free(f)) = Free(Wrapped(SumOf(e, f)))
  /\ \A e \in Exponents, k \in Int : Pow(Free(e), k) = Free(Wrapped(MultipleOf(e, k)))
BY FreeOperations DEF SumOf, MultipleOf

\* A part of the base units, and the product of two parts.
LEMMA OnlyLaws ==
  ASSUME NEW u \in FlagFree
  PROVE  /\ \A S : Only(u, S) \in FlagFree
         /\ \A S, T : S \cap T = {}
              => UnitTimes(Only(u, S), Only(u, T)) = Only(u, S \cup T)
         /\ Only(u, {}) = one
         /\ \A S : (\A b \in Base \ S : u.base.exp[b] = 0) => Only(u, S) = Plain(u.base)
<1> DEFINE e == u.base.exp
<1>1. u.base = Free(e) /\ e \in Exponents
  BY UnitShape, FreeShape
<1>2. \A S : Only(u, S) = Plain(Free(Some(e, S)))
  BY DEF Only
<1>3. \A S : Some(e, S) \in Exponents /\ Free(Some(e, S)) \in FlagFreeBase
  BY <1>1, SomeLaws, FreeShape
<1> HIDE DEF e
<1>4. \A S : Only(u, S) \in FlagFree
  BY <1>2, <1>3, UnitTyped
<1>5. ASSUME NEW S, NEW T, S \cap T = {}
      PROVE  UnitTimes(Only(u, S), Only(u, T)) = Only(u, S \cup T)
  <2>1. Times(Free(Some(e, S)), Free(Some(e, T)))
          = Free(Wrapped(SumOf(Some(e, S), Some(e, T))))
    BY <1>3, FreeSums
  <2>2. SumOf(Some(e, S), Some(e, T)) = Some(e, S \cup T)
    BY <1>1, <1>5, SomeLaws
  <2>3. Wrapped(Some(e, S \cup T)) = Some(e, S \cup T)
    BY <1>3, WrappedTyped
  <2> QED  BY <2>1, <2>2, <2>3, <1>2, <1>3, FactorLaws
<1>6. Only(u, {}) = one
  <2>1. Free([b \in Base |-> 0]) = Dimensionless
    BY DEF Free, Dimensionless
  <2> QED  BY <1>1, <1>2, <2>1, SomeLaws DEF one
<1>7. ASSUME NEW S, \A b \in Base \ S : u.base.exp[b] = 0
      PROVE  Only(u, S) = Plain(u.base)
  <2>1. \A b \in Base \ S : e[b] = 0
    BY <1>7 DEF e
  <2>2. Some(e, S) = e
    BY <1>1, <2>1, SomeLaws
  <2> QED  BY <1>1, <1>2, <2>2
<1> QED  BY <1>4, <1>5, <1>6, <1>7

\* Terms that neither divide nor have a prefix.
Upright == {term \in Readable : ~term.divides /\ term.prefix = 0}

\* Terms without a division and without a prefix are readable.
LEMMA UprightSeq == Seq(Upright) \subseteq Seq(Readable)
BY DEF Upright

\* A base unit to a power.
LEMMA AxisPower ==
  ASSUME NEW u \in FlagFree, NEW b \in Base, NEW name, Names(Term(name, 1), Axis(b)),
         u.base.exp[b] # 0
  PROVE  /\ Term(name, u.base.exp[b]) \in Upright
         /\ Worth(Term(name, u.base.exp[b])) = Only(u, {b})
<1> DEFINE e == u.base.exp
           k == e[b]
           term == Term(name, 1)
           new == Term(name, k)
           axis == [c \in Base |-> IF c = b THEN 1 ELSE 0]
<1>1. u.base = Free(e) /\ e \in Exponents
  BY UnitShape, FreeShape
<1>2. k \in Int \ {0} /\ e \in [Base -> Int]
  BY <1>1 DEF Exponents
<1>3. term.power = 1
  BY DEF Term
<1>4. name \in Vocabulary
  BY DEF Names, NameTerm, Term
<1>5. Known(term) \in FlagFree /\ Known(term) = Axis(b)
  <2>1. Known(term) \in FlagFree /\ UnitPow(Known(term), term.power) = Axis(b)
    BY DEF Names
  <2> HIDE DEF term
  <2> QED  BY <2>1, <1>3, UnitPowLaws
<1>6. new = Raised(term, k) /\ Names(new, UnitPow(Axis(b), k))
  <2> HIDE DEF k
  <2>1. Raised(term, k) = new
    BY <1>2, TermRaised
  <2>2. Names(Raised(term, k), UnitPow(Axis(b), k))
    <3> HIDE DEF term, new
    <3> QED  BY <1>2, NamesRaised DEF term
  <2> QED  BY <2>1, <2>2
<1>8. new \in Upright /\ Worth(new) = UnitPow(Axis(b), k)
  <2> HIDE DEF new
  <2> QED  BY <1>6, NamesShape, NamesWorth DEF Upright
<1>9. Axis(b) = Plain(Free(axis))
  BY DEF Axis, Free, Dimensionless
<1>10. axis \in Exponents
  <2>1. \A c \in Base : MinVal(c) <= 0 /\ 1 <= MaxVal(c)
    BY DEF MinVal, MaxVal
  <2>2. \A c \in Base : axis[c] \in Int /\ MinVal(c) <= axis[c] /\ axis[c] <= MaxVal(c)
    <3> SUFFICES ASSUME NEW c \in Base
                 PROVE  axis[c] \in Int /\ MinVal(c) <= axis[c] /\ axis[c] <= MaxVal(c)
      OBVIOUS
    <3>1. axis[c] = 0 \/ axis[c] = 1
      OBVIOUS
    <3>2. MinVal(c) \in Int /\ MaxVal(c) \in Int /\ MinVal(c) <= 0 /\ 1 <= MaxVal(c)
      BY <2>1 DEF MinVal, MaxVal
    <3> HIDE DEF axis
    <3> QED  BY <3>1, <3>2
  <2>3. axis \in [Base -> Int]
    OBVIOUS
  <2> HIDE DEF axis
  <2> QED  BY <2>2, <2>3 DEF Exponents
<1>11. MultipleOf(axis, k) = Some(e, {b})
  <2>1. \A c \in Base : axis[c] * k = IF c \in {b} THEN e[c] ELSE 0
    BY <1>2
  <2> QED  BY <2>1 DEF Some, MultipleOf
<1>12. Some(e, {b}) \in Exponents
  BY <1>1, SomeLaws
<1> HIDE DEF axis, e, k
<1>13. Pow(Free(axis), k) = Free(Some(e, {b}))
  <2>1. Pow(Free(axis), k) = Free(Wrapped(MultipleOf(axis, k)))
    BY <1>2, <1>10, FreeSums
  <2>2. Wrapped(Some(e, {b})) = Some(e, {b})
    BY <1>12, WrappedTyped
  <2> QED  BY <2>1, <2>2, <1>11
<1>14. MultPow(One, k) = One
  <2>1. One = number(0, 0) /\ 0 * k = 0 /\ 0 \in Int /\ k \in Int
    BY <1>2 DEF One
  <2> QED  BY <2>1, PrefixPower
<1>15. UnitPow(Axis(b), k) = Only(u, {b})
  BY <1>9, <1>13, <1>14 DEF UnitPow, Plain, precise_unit, Only, e
<1> QED  BY <1>8, <1>15 DEF new, k, e

\* The terms of the base units in a set.
RawOf(u, S, i) ==
  IF RawNames[i][1] \in S THEN <<Term(RawNames[i][2], u.base.exp[RawNames[i][1]])>> ELSE <<>>
RawOfAll(u, S) ==
  RawOf(u, S, 1) \o RawOf(u, S, 2) \o RawOf(u, S, 3) \o RawOf(u, S, 4) \o RawOf(u, S, 5)
  \o RawOf(u, S, 6) \o RawOf(u, S, 7) \o RawOf(u, S, 8) \o RawOf(u, S, 9) \o RawOf(u, S, 10)

Spells(terms, u, S) == terms \in Seq(Upright) /\ Product(terms) = Only(u, S)

\* One base unit of generateRawUnitString.
LEMMA SpellsOne ==
  ASSUME TablesReadBack, NEW u \in FlagFree, NEW i \in 1..10,
         NEW S, \A b \in S : u.base.exp[b] # 0
  PROVE  Spells(RawOf(u, S, i), u, {RawNames[i][1]} \cap S)
<1> DEFINE b == RawNames[i][1]
           name == RawNames[i][2]
<1>1. b \in Base
  BY BaseAssumption DEF RawNames
<1>2. Names(Term(name, 1), Axis(b))
  <2>1. DOMAIN RawNames = 1..10
    BY DEF RawNames
  <2> QED  BY <2>1 DEF TablesReadBack
<1> HIDE DEF b, name
<1>3. CASE b \in S
  <2>1. RawOf(u, S, i) = <<Term(name, u.base.exp[b])>>
    BY <1>3 DEF RawOf, b, name
  <2>2. Term(name, u.base.exp[b]) \in Upright /\ Worth(Term(name, u.base.exp[b])) = Only(u, {b})
    BY <1>1, <1>2, <1>3, AxisPower
  <2>3. Term(name, u.base.exp[b]) \in Readable
    BY <2>2 DEF Upright
  <2>4. Product(<<Term(name, u.base.exp[b])>>) = Only(u, {b})
    BY <2>2, <2>3, ProductOfOne
  <2>5. {b} \cap S = {b}
    BY <1>3
  <2> HIDE DEF Spells
  <2>6. Spells(<<Term(name, u.base.exp[b])>>, u, {b})
    BY <2>2, <2>4 DEF Spells
  <2> QED  BY <2>1, <2>5, <2>6 DEF b
<1>4. CASE b \notin S
  <2>1. RawOf(u, S, i) = <<>> /\ {b} \cap S = {}
    BY <1>4 DEF RawOf, b
  <2>2. Spells(<<>>, u, {})
    BY ProductOfNone, OnlyLaws DEF Spells
  <2> QED  BY <2>1, <2>2 DEF b
<1> QED  BY <1>3, <1>4

\* Two texts one after the other spell the base units of both.
LEMMA SpellsBoth ==
  ASSUME NEW u \in FlagFree, NEW S, NEW T, S \cap T = {},
         NEW s, NEW t, Spells(s, u, S), Spells(t, u, T)
  PROVE  Spells(s \o t, u, S \cup T)
<1>1. /\ s \in Seq(Upright) /\ t \in Seq(Upright)
      /\ Product(s) = Only(u, S) /\ Product(t) = Only(u, T)
  BY DEF Spells
<1>2. s \in Seq(Readable) /\ t \in Seq(Readable)
  BY <1>1, UprightSeq
<1>3. Product(s \o t) = Only(u, S \cup T)
  BY <1>1, <1>2, ProductOfConcat, OnlyLaws
<1> QED  BY <1>1, <1>3 DEF Spells

\* All ten of them.
LEMMA SpellsAll ==
  ASSUME TablesReadBack, NEW u \in FlagFree,
         NEW S \in SUBSET Base, \A b \in S : u.base.exp[b] # 0
  PROVE  Spells(RawOfAll(u, S), u, S)
<1> DEFINE first(n) == {RawNames[i][1] : i \in 1..n} \cap S
<1>a. \A i \in 1..10 : Spells(RawOf(u, S, i), u, {RawNames[i][1]} \cap S)
  BY SpellsOne
<1>b. ASSUME NEW n \in 1..9, NEW terms, Spells(terms, u, first(n))
      PROVE  Spells(terms \o RawOf(u, S, n + 1), u, first(n + 1))
  <2> DEFINE b == RawNames[n + 1][1]
  <2>1. b \notin {RawNames[i][1] : i \in 1..n}
    BY DEF RawNames
  <2>2. first(n) \cap ({b} \cap S) = {}
    BY <2>1
  <2>3. first(n + 1) = first(n) \cup ({b} \cap S)
    <3>1. 1..(n + 1) = 1..n \cup {n + 1}
      OBVIOUS
    <3> QED  BY <3>1
  <2> HIDE DEF first
  <2>4. Spells(RawOf(u, S, n + 1), u, {b} \cap S)
    <3>1. n + 1 \in 1..10
      OBVIOUS
    <3> QED  BY <3>1, <1>a
  <2> HIDE DEF b
  <2> QED  BY <1>b, <2>2, <2>3, <2>4, SpellsBoth
<1>c. first(1) = {RawNames[1][1]} \cap S
  OBVIOUS
<1>d. first(10) = S
  <2>1. Base \subseteq {RawNames[i][1] : i \in 1..10}
    BY BaseAssumption DEF RawNames
  <2> QED  BY <2>1
<1> HIDE DEF first
<1> DEFINE s1 == RawOf(u, S, 1)
           s2 == s1 \o RawOf(u, S, 2)
           s3 == s2 \o RawOf(u, S, 3)
           s4 == s3 \o RawOf(u, S, 4)
           s5 == s4 \o RawOf(u, S, 5)
           s6 == s5 \o RawOf(u, S, 6)
           s7 == s6 \o RawOf(u, S, 7)
           s8 == s7 \o RawOf(u, S, 8)
           s9 == s8 \o RawOf(u, S, 9)
           s10 == s9 \o RawOf(u, S, 10)
<1>1. Spells(s1, u, first(1))
  <2>1. Spells(RawOf(u, S, 1), u, {RawNames[1][1]} \cap S)
    BY <1>a, 1 \in 1..10
  <2> QED  BY <2>1, <1>c
<1>2. Spells(s2, u, first(2))
  BY <1>b, <1>1, 1 \in 1..9, 1 + 1 = 2
<1>3. Spells(s3, u, first(3))
  BY <1>b, <1>2, 2 \in 1..9, 2 + 1 = 3
<1>4. Spells(s4, u, first(4))
  BY <1>b, <1>3, 3 \in 1..9, 3 + 1 = 4
<1>5. Spells(s5, u, first(5))
  BY <1>b, <1>4, 4 \in 1..9, 4 + 1 = 5
<1>6. Spells(s6, u, first(6))
  BY <1>b, <1>5, 5 \in 1..9, 5 + 1 = 6
<1>7. Spells(s7, u, first(7))
  BY <1>b, <1>6, 6 \in 1..9, 6 + 1 = 7
<1>8. Spells(s8, u, first(8))
  BY <1>b, <1>7, 7 \in 1..9, 7 + 1 = 8
<1>9. Spells(s9, u, first(9))
  BY <1>b, <1>8, 8 \in 1..9, 8 + 1 = 9
<1>10. Spells(s10, u, first(10))
  BY <1>b, <1>9, 9 \in 1..9, 9 + 1 = 10
<1>11. RawOfAll(u, S) = s10
  BY DEF RawOfAll
<1> HIDE DEF s10
<1> QED  BY <1>d, <1>10, <1>11

Positive(u) == {b \in Base : u.base.exp[b] > 0}
Negative(u) == {b \in Base : u.base.exp[b] < 0}

\* The terms above and below the fraction bar are all of one sign.
LEMMA RawTermsShape ==
  ASSUME NEW u \in FlagFree
  PROVE  /\ RawTerms(u, TRUE) = RawOfAll(u, Positive(u))
         /\ RawTerms(u, FALSE) = RawOfAll(u, Negative(u))
<1> DEFINE power(i) == u.base.exp[RawNames[i][1]]
           term(i) == <<Term(RawNames[i][2], power(i))>>
           top(i) == IF power(i) # 0 /\ (power(i) > 0) = TRUE THEN term(i) ELSE <<>>
           bottom(i) == IF power(i) # 0 /\ (power(i) > 0) = FALSE THEN term(i) ELSE <<>>
<1>1. /\ RawTerms(u, TRUE) = top(1) \o top(2) \o top(3) \o top(4) \o top(5)
                             \o top(6) \o top(7) \o top(8) \o top(9) \o top(10)
      /\ RawTerms(u, FALSE) = bottom(1) \o bottom(2) \o bottom(3) \o bottom(4) \o bottom(5)
                              \o bottom(6) \o bottom(7) \o bottom(8) \o bottom(9) \o bottom(10)
  BY DEF RawTerms
<1>2. ASSUME NEW i \in 1..10
      PROVE  top(i) = RawOf(u, Positive(u), i) /\ bottom(i) = RawOf(u, Negative(u), i)
  <2>1. RawNames[i][1] \in Base
    BY BaseAssumption DEF RawNames
  <2>2. power(i) \in Int
    BY <2>1, UnitShape, FreeShape DEF Exponents
  <2>3. /\ RawNames[i][1] \in Positive(u) <=> power(i) > 0
        /\ RawNames[i][1] \in Negative(u) <=> power(i) < 0
    BY <2>1 DEF Positive, Negative
  <2>4. /\ RawOf(u, Positive(u), i) = IF power(i) > 0 THEN term(i) ELSE <<>>
        /\ RawOf(u, Negative(u), i) = IF power(i) < 0 THEN term(i) ELSE <<>>
    BY <2>3 DEF RawOf
  <2> HIDE DEF power, term
  <2>5. /\ top(i) = IF power(i) > 0 THEN term(i) ELSE <<>>
        /\ bottom(i) = IF power(i) < 0 THEN term(i) ELSE <<>>
    BY <2>2
  <2> QED  BY <2>4, <2>5
<1> HIDE DEF top, bottom
<1>3. /\ top(1) = RawOf(u, Positive(u), 1) /\ bottom(1) = RawOf(u, Negative(u), 1)
      /\ top(2) = RawOf(u, Positive(u), 2) /\ bottom(2) = RawOf(u, Negative(u), 2)
      /\ top(3) = RawOf(u, Positive(u), 3) /\ bottom(3) = RawOf(u, Negative(u), 3)
      /\ top(4) = RawOf(u, Positive(u), 4) /\ bottom(4) = RawOf(u, Negative(u), 4)
      /\ top(5) = RawOf(u, Positive(u), 5) /\ bottom(5) = RawOf(u, Negative(u), 5)
      /\ top(6) = RawOf(u, Positive(u), 6) /\ bottom(6) = RawOf(u, Negative(u), 6)
      /\ top(7) = RawOf(u, Positive(u), 7) /\ bottom(7) = RawOf(u, Negative(u), 7)
      /\ top(8) = RawOf(u, Positive(u), 8) /\ bottom(8) = RawOf(u, Negative(u), 8)
      /\ top(9) = RawOf(u, Positive(u), 9) /\ bottom(9) = RawOf(u, Negative(u), 9)
      /\ top(10) = RawOf(u, Positive(u), 10) /\ bottom(10) = RawOf(u, Negative(u), 10)
  BY <1>2
<1> QED  BY <1>1, <1>3 DEF RawOfAll

\* Without flags no names are added for them.
LEMMA NoFlagStrings ==
  ASSUME NEW u, u.base.flags = {}, NEW terms \in Seq(Readable)
  PROVE  addUnitFlagStrings(u, terms) = terms
<1>1. \A flag, name : Flagged(u, flag, name) = <<>>
  BY DEF Flagged
<1>2. addUnitFlagStrings(u, terms) = <<>> \o <<>> \o terms \o <<>>
  BY <1>1 DEF addUnitFlagStrings
<1>3. <<>> \o <<>> = <<>>
  OBVIOUS
<1>4. <<>> \o terms = terms /\ terms \o <<>> = terms
  OBVIOUS
<1> QED  BY <1>2, <1>3, <1>4

Unprefixed == {term \in Readable : term.prefix = 0}
RawFor(terms, u) == terms \in Seq(Unprefixed) /\ Product(terms) = Plain(u.base)

\* generateRawUnitString writes the base units of any unit.
LEMMA RawWrites ==
  ASSUME TablesReadBack, NEW u \in FlagFree
  PROVE  RawFor(generateRawUnitString(u), u)
<1> DEFINE P == Positive(u)
           N == Negative(u)
           top == RawTerms(u, TRUE)
           bottom == RawTerms(u, FALSE)
           raw == generateRawUnitString(u)
<1>e. \A b \in Base : u.base.exp[b] \in Int
  BY UnitShape, FreeShape DEF Exponents
<1>1. P \in SUBSET Base /\ N \in SUBSET Base /\ P \cap N = {}
      /\ (\A b \in P : u.base.exp[b] # 0) /\ (\A b \in N : u.base.exp[b] # 0)
      /\ \A b \in Base \ (P \cup N) : u.base.exp[b] = 0
  BY <1>e DEF Positive, Negative
<1> HIDE DEF P, N
<1>2. Spells(top, u, P) /\ Spells(bottom, u, N)
  <2>1. Spells(RawOfAll(u, P), u, P) /\ Spells(RawOfAll(u, N), u, N)
    BY <1>1, SpellsAll
  <2> QED  BY <2>1, RawTermsShape DEF P, N
<1>3. Only(u, P \cup N) = Plain(u.base)
  BY <1>1, OnlyLaws
<1> HIDE DEF top, bottom
<1>4. /\ top \in Seq(Readable) /\ bottom \in Seq(Readable)
      /\ top \in Seq(Unprefixed) /\ bottom \in Seq(Unprefixed)
      /\ \A i \in DOMAIN bottom : bottom[i] \in Upright
  <2>1. top \in Seq(Upright) /\ bottom \in Seq(Upright)
    BY <1>2 DEF Spells
  <2>2. Upright \subseteq Readable /\ Upright \subseteq Unprefixed
    BY DEF Upright, Unprefixed
  <2> QED  BY <2>1, <2>2, SeqShape
<1>5. UnitTimes(Product(top), Product(bottom)) = Plain(u.base)
  BY <1>1, <1>2, <1>3, OnlyLaws DEF Spells
<1>6. addUnitFlagStrings(u, top) = top
  BY <1>4, UnitShape, FreeShape, NoFlagStrings
<1>7. CASE Len(bottom) # 1
  <2>1. raw = top \o bottom
    BY <1>6, <1>7 DEF generateRawUnitString, top, bottom
  <2>2. top \o bottom \in Seq(Unprefixed)
    BY <1>4
  <2> HIDE DEF raw
  <2> QED  BY <2>1, <2>2, <1>4, <1>5, ProductOfConcat DEF raw, RawFor
<1>8. CASE Len(bottom) = 1
  <2>1. bottom = <<bottom[1]>> /\ bottom[1] \in Upright /\ bottom[1] \in Readable
    <3>1. bottom = <<bottom[1]>> /\ 1 \in DOMAIN bottom
      BY <1>4, <1>8
    <3> QED  BY <3>1, <1>4 DEF Upright
  <2>2. Product(bottom) = Worth(bottom[1])
    BY <2>1, ProductOfOne
  <2>3. CASE top = <<>> /\ bottom[1] = Term("s", -1)
    <3>1. raw = <<Term("Hz", 1)>>
      BY <1>6, <1>8, <2>3 DEF generateRawUnitString, top, bottom
    <3>2. Names(Term("s", 1), Axis("second")) /\ Names(Term("Hz", 1), UnitInv(Axis("second")))
      <4>1. 3 \in DOMAIN RawNames /\ RawNames[3] = <<"second", "s">>
        BY DEF RawNames
      <4> QED  BY <4>1 DEF TablesReadBack
    <3>3. Worth(Term("s", -1)) = UnitInv(Axis("second"))
      <4>1. Term("s", 1) \in Readable /\ Worth(Term("s", 1)) = Axis("second")
            /\ Axis("second") \in FlagFree
        BY <3>2, NamesShape, NamesWorth
      <4>2. Term("s", -1) = Raised(Term("s", 1), -1)
        BY <3>2, TermRaised, -1 \in Int \ {0}
      <4>3. Worth(Raised(Term("s", 1), -1)) = UnitPow(Axis("second"), -1)
        BY <4>1, RaisedWorth, -1 \in Int \ {0}
      <4> QED  BY <4>1, <4>2, <4>3, UnitPowLaws
    <3>4. Worth(Term("Hz", 1)) = UnitInv(Axis("second")) /\ Term("Hz", 1) \in Unprefixed
      BY <3>2, NamesWorth, NamesShape DEF Unprefixed
    <3>5. Term("Hz", 1) \in Readable /\ Product(<<Term("Hz", 1)>>) = UnitInv(Axis("second"))
      BY <3>4, ProductOfOne DEF Unprefixed
    <3>6. Plain(u.base) = UnitInv(Axis("second"))
      <4>1. Plain(u.base) = UnitTimes(one, Worth(bottom[1]))
        BY <1>5, <2>2, <2>3, ProductOfNone
      <4> QED  BY <4>1, <2>1, <2>3, <3>3, WorthTyped, UnitLaws
    <3>7. <<Term("Hz", 1)>> \in Seq(Unprefixed)
      BY <3>4
    <3> HIDE DEF raw
    <3> QED  BY <3>1, <3>5, <3>6, <3>7 DEF raw, RawFor
  <2>4. CASE ~(top = <<>> /\ bottom[1] = Term("s", -1))
    <3>1. raw = Append(top, Dividing(Raised(bottom[1], -1)))
      BY <1>6, <1>8, <2>4 DEF generateRawUnitString, top, bottom
    <3> DEFINE last == Dividing(Raised(bottom[1], -1))
    <3>2. last \in Unprefixed /\ last \in Readable /\ Worth(last) = Worth(bottom[1])
      BY <2>1, RaisedWorth DEF Upright, Unprefixed
    <3> HIDE DEF last, raw
    <3>3. Append(top, last) \in Seq(Unprefixed)
      BY <3>2, <1>4
    <3>4. Product(Append(top, last)) = Plain(u.base)
      BY <1>4, <1>5, <2>2, <3>2, ProductOfAppend
    <3> QED  BY <3>1, <3>3, <3>4 DEF last, raw, RawFor
  <2> QED  BY <2>3, <2>4
<1> QED  BY <1>7, <1>8

(***************************************************************************)
(* The rules one by one.                                                   *)
(***************************************************************************)
LEMMA FirstOfMember ==
  ASSUME NEW n \in Nat, NEW sets, DOMAIN sets = 1..n, NEW x \in FirstOf(sets)
  PROVE  \E i \in 1..n : x \in sets[i]
<1> DEFINE T == {i \in 1..n : sets[i] # {}}
           First(i) == sets[i] # {} /\ \A j \in 1..(i - 1) : sets[j] = {}
<1>1. T \subseteq Nat /\ T # {}
  BY DEF FirstOf
<1> HIDE DEF T
<1>2. PICK m \in T : \A k \in T : m <= k
  BY <1>1, LeastNumber
<1>3. m \in 1..n /\ First(m)
  BY <1>2 DEF T
<1>4. FirstOf(sets) = sets[CHOOSE i \in 1..n : First(i)]
  BY <1>1 DEF FirstOf, T
<1> QED  BY <1>3, <1>4

\* The rule applies, and the last one only to units that are not numbers.
LEMMA RuleApplies ==
  ASSUME NEW u
  PROVE  /\ Rule(u) \in {Rules[i] : i \in 1..15}
         /\ Applies(Rule(u), u)
         /\ Rule(u) = "probe" => ~empty(u)
         /\ IsNormal(u.mult) => Rule(u) # "special"
         /\ ~IsNormal(u.mult) => Rule(u) = "special"
<1> DEFINE T == {i \in 1..15 : Applies(Rules[i], u)}
           First(i) == Applies(Rules[i], u) /\ \A j \in 1..(i - 1) : ~Applies(Rules[j], u)
           r == CHOOSE i \in 1..15 : First(i)
<1>1. Rule(u) = Rules[r]
  <2>1. DOMAIN Rules = 1..15
    BY DEF Rules
  <2> QED  BY <2>1 DEF Rule
<1>2. Applies("probe", u) /\ Rules[15] = "probe"
  BY DEF Applies, Rules
<1>3. T \subseteq Nat /\ T # {}
  BY <1>2
<1>4. PICK m \in T : \A k \in T : m <= k
  BY <1>3, LeastNumber
<1>5. First(m)
  BY <1>4
<1>6. r \in 1..15 /\ First(r)
  BY <1>4, <1>5
<1> HIDE DEF r
<1>7. Rules[r] = "probe" => r = 15
  <2>1. \A i \in 1..15 : Rules[i] = "probe" => i = 15
    <3>1. \A i \in 1..15 :
           i = 1 \/ i = 2 \/ i = 3 \/ i = 4 \/ i = 5 \/ i = 6 \/ i = 7 \/ i = 8
           \/ i = 9 \/ i = 10 \/ i = 11 \/ i = 12 \/ i = 13 \/ i = 14 \/ i = 15
      OBVIOUS
    <3>2.  /\ Rules[1] # "probe" /\ Rules[2] # "probe" /\ Rules[3] # "probe"
           /\ Rules[4] # "probe" /\ Rules[5] # "probe" /\ Rules[6] # "probe"
           /\ Rules[7] # "probe" /\ Rules[8] # "probe" /\ Rules[9] # "probe"
           /\ Rules[10] # "probe" /\ Rules[11] # "probe" /\ Rules[12] # "probe"
           /\ Rules[13] # "probe" /\ Rules[14] # "probe"
      BY DEF Rules
    <3> QED  BY <3>1, <3>2
  <2> HIDE DEF First
  <2> QED  BY <2>1, <1>6
<1>8. Rules[r] = "probe" => ~empty(u)
  <2>1. Rules[5] = "number" /\ (Applies("number", u) <=> empty(u))
    BY DEF Rules, Applies
  <2> QED  BY <2>1, <1>6, <1>7
<1>9. Applies("special", u) <=> ~IsNormal(u.mult)
  BY DEF Applies
<1>10. Rules[1] = "special" /\ (Rules[r] = "special" => r = 1) /\ (r # 1 => 1 \in 1..(r - 1))
  <2>1. Rules[1] = "special" /\ \A i \in 1..15 : Rules[i] = "special" => i = 1
    <3>1. \A i \in 1..15 :
           i = 1 \/ i = 2 \/ i = 3 \/ i = 4 \/ i = 5 \/ i = 6 \/ i = 7 \/ i = 8
           \/ i = 9 \/ i = 10 \/ i = 11 \/ i = 12 \/ i = 13 \/ i = 14 \/ i = 15
      OBVIOUS
    <3>2.  /\ Rules[2] # "special" /\ Rules[3] # "special" /\ Rules[4] # "special"
           /\ Rules[5] # "special" /\ Rules[6] # "special" /\ Rules[7] # "special"
           /\ Rules[8] # "special" /\ Rules[9] # "special" /\ Rules[10] # "special"
           /\ Rules[11] # "special" /\ Rules[12] # "special" /\ Rules[13] # "special"
           /\ Rules[14] # "special" /\ Rules[15] # "special"
           /\ Rules[1] = "special"
      BY DEF Rules
    <3> QED  BY <3>1, <3>2
  <2>2. r \in 1..15
    BY <1>6
  <2> HIDE DEF First
  <2> QED  BY <2>1, <2>2
<1> QED  BY <1>1, <1>6, <1>8, <1>9, <1>10

\* A unit without dimensions, by its powers.
LEMMA NoBaseUnits ==
  ASSUME NEW u \in FlagFree
  PROVE  /\ unit_type_count(u) = 0 => u.base = Dimensionless
         /\ u.base = Dimensionless => unit_type_count(u) = 0
<1>1. u.base = Free(u.base.exp) /\ u.base.exp \in [Base -> Int]
  BY UnitShape, FreeShape DEF Exponents
<1>2. ASSUME unit_type_count(u) = 0 PROVE \A b \in Base : u.base.exp[b] = 0
  BY <1>2, BaseAssumption DEF unit_type_count, If
<1>3. (\A b \in Base : u.base.exp[b] = 0) => u.base.exp = [b \in Base |-> 0]
  BY <1>1
<1>4. Free([b \in Base |-> 0]) = Dimensionless
  BY DEF Free, Dimensionless
<1>5. ASSUME u.base = Dimensionless PROVE unit_type_count(u) = 0
  <2>1. \A b \in Base : u.base.exp[b] = 0
    <3>1. Dimensionless.exp = [b \in Base |-> 0]
      BY DEF Dimensionless
    <3> QED  BY <1>5, <3>1
  <2> QED  BY <2>1, BaseAssumption DEF unit_type_count, If
<1> QED  BY <1>1, <1>2, <1>3, <1>4, <1>5

\* A unit named as it is, or inverted.
LEMMA NamedWrites ==
  ASSUME TablesReadBack, NEW u \in FlagFree
  PROVE  /\ HasName(u) => /\ NameOf(u) \in Readable /\ NameOf(u).prefix = 0
                          /\ Worth(NameOf(u)) = u
         /\ HasName(UnitInv(u)) => /\ Dividing(NameOf(UnitInv(u))) \in Readable
                                   /\ NameOf(UnitInv(u)) \in Readable
                                   /\ NameOf(UnitInv(u)).prefix = 0
                                   /\ Worth(NameOf(UnitInv(u))) = UnitInv(u)
                                   /\ Worth(Dividing(NameOf(UnitInv(u)))) = u
<1>1. ASSUME NEW v \in FlagFree, HasName(v)
      PROVE  /\ NameOf(v) \in Readable /\ NameOf(v).prefix = 0
             /\ Worth(NameOf(v)) = v
  <2>1. Names(NameOf(v), v)
    BY <1>1, NameOfNames
  <2> QED  BY <2>1, NamesShape, NamesWorth
<1>2. UnitInv(u) \in FlagFree /\ UnitInv(UnitInv(u)) = u
  BY UnitTyped, GroupLaws
<1>3. HasName(UnitInv(u)) => /\ NameOf(UnitInv(u)) \in Readable
                             /\ NameOf(UnitInv(u)).prefix = 0
                             /\ Worth(NameOf(UnitInv(u))) = UnitInv(u)
  BY <1>1, <1>2
<1> QED  BY <1>1, <1>2, <1>3, DividingWorth

\* A known power of a unit, or of its inverse, is worth the unit.
LEMMA NamedPowerWrites ==
  ASSUME TablesReadBack, NEW u \in FlagFree, NEW n \in 2..3, IsNamedPower(u, n)
  PROVE  NamedPower(u, n) \in Readable /\ Worth(NamedPower(u, n)) = u
<1> DEFINE root == UnitRoot(u, n)
           inverse == UnitInv(root)
<1>1. root \in FlagFree /\ UnitPow(root, n) = u
  BY UnitRootLaws DEF IsNamedPower
<1>2. HasName(root) \/ HasName(inverse)
  BY DEF IsNamedPower
<1>3. n \in Int \ {0} /\ -1 \in Int
  OBVIOUS
<1> HIDE DEF root
<1>4. CASE HasName(root)
  <2>1. NamedPower(u, n) = Raised(NameOf(root), n)
    BY <1>4 DEF NamedPower, root
  <2>2. Names(Raised(NameOf(root), n), u)
    BY <1>1, <1>3, <1>4, NameOfNames, NamesRaised
  <2> QED  BY <2>1, <2>2, NamesShape, NamesWorth
<1>5. CASE ~HasName(root)
  <2>1. NamedPower(u, n) = Dividing(Raised(NameOf(inverse), n))
    BY <1>5 DEF NamedPower, root
  <2>2. inverse \in FlagFree /\ HasName(inverse)
    BY <1>1, <1>2, <1>5, UnitTyped
  <2>3. UnitPow(inverse, n) = UnitInv(u)
    <3>1. inverse = UnitPow(root, -1) /\ UnitPow(UnitPow(root, -1), n) = UnitPow(root, (-1) * n)
      BY <1>1, <1>3, UnitPowLaws
    <3>2. UnitPow(UnitPow(root, n), -1) = UnitPow(root, n * (-1))
      BY <1>1, <1>3, UnitPowLaws
    <3>3. (-1) * n = n * (-1)
      OBVIOUS
    <3> QED  BY <3>1, <3>2, <3>3, <1>1, UnitPowLaws
  <2> HIDE DEF inverse
  <2>4. Names(Raised(NameOf(inverse), n), UnitInv(u))
    BY <2>2, <2>3, <1>3, NameOfNames, NamesRaised
  <2>5. Raised(NameOf(inverse), n) \in Readable
        /\ Worth(Raised(NameOf(inverse), n)) = UnitInv(u)
    BY <2>4, NamesShape, NamesWorth
  <2> QED  BY <2>1, <2>5, DividingWorth, GroupLaws
<1> QED  BY <1>4, <1>5

(***************************************************************************)
(* A unit that takes a prefix, times one base unit at most.                *)
(***************************************************************************)
Fits(part, u) ==
  /\ part.before \in Seq(Readable) /\ part.after \in Seq(Readable) /\ part.rest \in FlagFree
  /\ UnitTimes(Product(part.before), UnitTimes(part.rest, Product(part.after))) = u

\* A multiplier that is one or a prefix is a power of ten.
LEMMA OneOrPrefixShape ==
  ASSUME NEW m \in NormalMult, OneOrPrefix(m)
  PROVE  m.ten \in SIPrefix \cup {0} /\ m = number(m.ten, 0)
<1>1. CASE m = One
  BY <1>1 DEF One, number
<1>2. CASE IsSIPrefix(m)
  <2>1. m.ten \in SIPrefix /\ m.neg = FALSE /\ m.sixty = 0
    BY <1>2, NormalShape DEF IsSIPrefix
  <2>2. m = Normal(m.neg, m.ten, m.sixty)
    BY NormalShape
  <2>3. number(m.ten, 0) = Normal(FALSE, m.ten, 0)
    BY DEF number, Normal
  <2> QED  BY <2>1, <2>2, <2>3
<1> QED  BY <1>1, <1>2 DEF OneOrPrefix

\* A part that is written before the rest, and one after it.
LEMMA FactorFits ==
  ASSUME NEW si \in NamedUnit, si.term.power = 1,
         NEW by \in FlagFree, OneOrPrefix(by.mult)
  PROVE  LET factor == [si.term EXCEPT !.prefix = by.mult.ten]
             u == UnitTimes(by, si.unit)
         IN /\ unit_type_count(by) = 0
                 => Fits(Part(addUnitFlagStrings(by, <<factor>>), one, <<>>), u)
            /\ Fits(Part(<<factor>>, Plain(by.base), <<>>), u)
<1> DEFINE factor == [si.term EXCEPT !.prefix = by.mult.ten]
           v == si.unit
           ten == Factor(by.mult)
<1>1. Names(si.term, v) /\ v \in FlagFree /\ by.mult \in NormalMult /\ by.base \in FlagFreeBase
      /\ by.base.flags = {}
  BY UnitShape, FreeShape DEF NamedUnit
<1>2. by.mult.ten \in SIPrefix \cup {0} /\ by.mult = number(by.mult.ten, 0)
  BY <1>1, OneOrPrefixShape
<1>3. factor \in Readable /\ Worth(factor) = UnitTimes(ten, v)
  BY <1>1, <1>2, NamesPrefixed
<1>4. by = UnitTimes(ten, Plain(by.base)) /\ ten \in FlagFree /\ Plain(by.base) \in FlagFree
  BY <1>1, FactorLaws, UnitTyped
<1> HIDE DEF factor, v, ten
<1>5. <<factor>> \in Seq(Readable) /\ Product(<<factor>>) = UnitTimes(ten, v)
  BY <1>3, ProductOfOne
<1>6. addUnitFlagStrings(by, <<factor>>) = <<factor>>
  BY <1>1, <1>5, NoFlagStrings
<1>7. ASSUME NEW rest \in FlagFree, by = UnitTimes(ten, rest)
      PROVE  Fits(Part(<<factor>>, rest, <<>>), UnitTimes(by, v))
  <2>1. UnitTimes(rest, Product(<<>>)) = rest
    BY ProductOfNone, GroupLaws
  <2>2. UnitTimes(UnitTimes(ten, v), rest) = UnitTimes(UnitTimes(ten, rest), v)
    BY <1>1, <1>4, UnitTyped, UnitLaws
  <2> QED  BY <2>1, <2>2, <1>5, <1>7, ProductOfNone DEF Fits, Part
<1>8. unit_type_count(by) = 0 => by = UnitTimes(ten, one)
  BY <1>4, NoBaseUnits DEF one
<1> QED  BY <1>4, <1>6, <1>7, <1>8, UnitTyped DEF factor, v

\* What is written below the fraction bar, and the rest.
LEMMA DivisorFits ==
  ASSUME NEW si \in NamedUnit, si.term.power = 1,
         NEW over \in FlagFree, OneOrPrefix(MultInv(over.mult))
  PROVE  LET divisor == Dividing([si.term EXCEPT !.prefix = -over.mult.ten])
             u == UnitDivides(over, si.unit)
         IN /\ unit_type_count(over) = 0
                 => Fits(Part(Append(addUnitFlagStrings(over, <<>>), divisor), one, <<>>), u)
            /\ Fits(Part(<<>>, Plain(over.base), <<divisor>>), u)
<1> DEFINE factor == [si.term EXCEPT !.prefix = -over.mult.ten]
           divisor == Dividing(factor)
           v == si.unit
           inverse == MultInv(over.mult)
           ten == Factor(over.mult)
<1>1. Names(si.term, v) /\ v \in FlagFree /\ over.mult \in NormalMult /\ over.base \in FlagFreeBase
      /\ over.base.flags = {}
  BY UnitShape, FreeShape DEF NamedUnit
<1>2. inverse \in NormalMult /\ inverse.ten \in SIPrefix \cup {0}
      /\ inverse = number(inverse.ten, 0)
  BY <1>1, OneOrPrefixShape, MultTyped
<1>3. inverse.ten = -over.mult.ten
  BY <1>1, InvShape DEF Normal
<1>4. factor \in Readable /\ Worth(factor) = UnitTimes(Factor(inverse), v)
  BY <1>1, <1>2, <1>3, NamesPrefixed
<1>5. over = UnitTimes(ten, Plain(over.base)) /\ ten \in FlagFree /\ Plain(over.base) \in FlagFree
      /\ Factor(inverse) = UnitInv(ten)
  BY <1>1, FactorLaws, UnitTyped
<1> HIDE DEF factor, v, ten, inverse
<1>6. divisor \in Readable /\ Worth(divisor) = UnitTimes(ten, UnitInv(v))
  <2>1. divisor \in Readable /\ Worth(divisor) = UnitInv(UnitTimes(UnitInv(ten), v))
    BY <1>4, <1>5, DividingWorth
  <2>2. UnitInv(UnitTimes(UnitInv(ten), v)) = UnitTimes(UnitInv(UnitInv(ten)), UnitInv(v))
    BY <1>1, <1>5, UnitTyped, GroupLaws
  <2> QED  BY <2>1, <2>2, <1>5, GroupLaws
<1> HIDE DEF divisor
<1>7. <<divisor>> \in Seq(Readable) /\ Product(<<divisor>>) = UnitTimes(ten, UnitInv(v))
  BY <1>6, ProductOfOne
<1>8. UnitDivides(over, v) = UnitTimes(over, UnitInv(v)) /\ UnitInv(v) \in FlagFree
  BY <1>1, UnitTyped, UnitLaws
<1>9. Append(addUnitFlagStrings(over, <<>>), divisor) = <<divisor>>
  <2>1. addUnitFlagStrings(over, <<>>) = <<>>
    BY <1>1, ProductOfNone, NoFlagStrings
  <2>2. Append(<<>>, divisor) = <<>> \o <<divisor>>
    BY AppendIsConcat, EmptySeq
  <2>3. <<>> \o <<divisor>> = <<divisor>>
    OBVIOUS
  <2> QED  BY <2>1, <2>2, <2>3
<1>10. ASSUME unit_type_count(over) = 0
       PROVE  Fits(Part(<<divisor>>, one, <<>>), UnitDivides(over, v))
  <2>1. over = UnitTimes(ten, one)
    BY <1>5, <1>10, NoBaseUnits DEF one
  <2>2. over = ten
    BY <2>1, <1>5, GroupLaws
  <2>3. UnitTimes(one, Product(<<>>)) = one
    BY ProductOfNone, UnitTyped, GroupLaws
  <2>4. UnitTimes(UnitTimes(ten, UnitInv(v)), one) = UnitTimes(ten, UnitInv(v))
    BY <1>5, <1>8, UnitTyped, GroupLaws
  <2> QED  BY <2>2, <2>3, <2>4, <1>7, <1>8, ProductOfNone, UnitTyped DEF Fits, Part
<1>11. Fits(Part(<<>>, Plain(over.base), <<divisor>>), UnitDivides(over, v))
  <2> DEFINE rest == Plain(over.base)
  <2>1. UnitTimes(one, UnitTimes(rest, UnitTimes(ten, UnitInv(v))))
          = UnitTimes(rest, UnitTimes(ten, UnitInv(v)))
    BY <1>5, <1>8, UnitTyped, UnitLaws
  <2>2. UnitTimes(rest, UnitTimes(ten, UnitInv(v))) = UnitTimes(UnitTimes(ten, rest), UnitInv(v))
    BY <1>5, <1>8, UnitTyped, UnitLaws
  <2> QED  BY <2>1, <2>2, <1>5, <1>7, <1>8, ProductOfNone DEF Fits, Part
<1> QED  BY <1>9, <1>10, <1>11 DEF divisor, factor, v

\* Whatever part the SI test finds, the part and the rest are the unit.
LEMMA SIPartFits ==
  ASSUME TablesReadBack, NEW u \in FlagFree, NEW part \in AllSIParts(u)
  PROVE  Fits(part, u)
<1>1. /\ SITestUnits \in Seq({p \in NamedUnit : p.term.power = 1})
      /\ Len(SITestUnits) \in Nat /\ DOMAIN SITestUnits = 1..Len(SITestUnits)
  BY SeqShape DEF TablesReadBack
<1>2. PICK i \in 1..Len(SITestUnits) : part \in FirstOf(SIParts(u, SITestUnits[i]))
  <2> DEFINE sets == [i \in DOMAIN SITestUnits |-> FirstOf(SIParts(u, SITestUnits[i]))]
  <2>1. part \in FirstOf(sets)
    BY DEF AllSIParts
  <2>2. DOMAIN sets = 1..Len(SITestUnits)
    BY <1>1
  <2>3. \A i \in 1..Len(SITestUnits) : sets[i] = FirstOf(SIParts(u, SITestUnits[i]))
    BY <1>1
  <2> HIDE DEF sets
  <2>4. \E i \in 1..Len(SITestUnits) : part \in sets[i]
    BY <2>1, <2>2, <1>1, FirstOfMember
  <2> QED  BY <2>3, <2>4
<1> DEFINE si == SITestUnits[i]
           v == si.unit
           by == UnitDivides(u, v)
           over == UnitTimes(u, v)
           factor == [si.term EXCEPT !.prefix = by.mult.ten]
           divisor == Dividing([si.term EXCEPT !.prefix = -over.mult.ten])
           parts == SIParts(u, si)
<1>3. si \in NamedUnit /\ si.term.power = 1 /\ v \in FlagFree
  <2>1. si \in {p \in NamedUnit : p.term.power = 1}
    BY <1>1, <1>2
  <2> QED  BY <2>1 DEF NamedUnit
<1> HIDE DEF si, v
<1>4. by \in FlagFree /\ over \in FlagFree /\ UnitTimes(by, v) = u /\ UnitDivides(over, v) = u
  BY <1>3, UnitTyped, GroupLaws
<1>5. /\ DOMAIN parts = 1..2
      /\ parts[1] = IF OneOrPrefix(by.mult) /\ unit_type_count(by) <= 1
                    THEN {IF unit_type_count(by) = 0
                          THEN Part(addUnitFlagStrings(by, <<factor>>), one, <<>>)
                          ELSE Part(<<factor>>, Plain(by.base), <<>>)}
                    ELSE {}
      /\ parts[2] = IF OneOrPrefix(MultInv(over.mult)) /\ unit_type_count(over) <= 1
                    THEN {IF unit_type_count(over) = 0
                          THEN Part(Append(addUnitFlagStrings(over, <<>>), divisor), one, <<>>)
                          ELSE Part(<<>>, Plain(over.base), <<divisor>>)}
                    ELSE {}
  BY DEF SIParts, v
<1>6. OneOrPrefix(by.mult) =>
        /\ unit_type_count(by) = 0
             => Fits(Part(addUnitFlagStrings(by, <<factor>>), one, <<>>), UnitTimes(by, v))
        /\ Fits(Part(<<factor>>, Plain(by.base), <<>>), UnitTimes(by, v))
  <2> HIDE DEF by
  <2> QED  BY <1>3, <1>4, FactorFits DEF v
<1>7. OneOrPrefix(MultInv(over.mult)) =>
        /\ unit_type_count(over) = 0
             => Fits(Part(Append(addUnitFlagStrings(over, <<>>), divisor), one, <<>>),
                     UnitDivides(over, v))
        /\ Fits(Part(<<>>, Plain(over.base), <<divisor>>), UnitDivides(over, v))
  <2> HIDE DEF over
  <2> QED  BY <1>3, <1>4, DivisorFits DEF v
<1>8. part \in FirstOf(parts)
  BY <1>2 DEF si
<1> HIDE DEF by, over, factor, divisor, parts
<1>9. part \in parts[1] \/ part \in parts[2]
  <2>1. PICK j \in 1..2 : part \in parts[j]
    BY <1>5, <1>8, FirstOfMember, 2 \in Nat
  <2>2. j = 1 \/ j = 2
    OBVIOUS
  <2> QED  BY <2>1, <2>2
<1> QED  BY <1>4, <1>5, <1>6, <1>7, <1>9

(***************************************************************************)
(* Texts that are put together from others.                                *)
(***************************************************************************)
LEMMA WritesShape ==
  ASSUME NEW text, NEW u, Writes(text, u)
  PROVE  /\ text.number \in NormalMult /\ text.terms \in Seq(Readable)
         /\ u = UnitTimes(Factor(text.number), Product(text.terms)) /\ u \in FlagFree
         /\ Factor(text.number) \in FlagFree /\ Product(text.terms) \in FlagFree
<1>1. text.number \in NormalMult /\ text.terms \in Seq(Readable)
  BY DEF Writes, TextType
<1>2. Factor(text.number) \in FlagFree /\ Product(text.terms) \in FlagFree
  BY <1>1, UnitTyped, ProductTyped
<1> QED  BY <1>1, <1>2, UnitTyped DEF Writes, Value

\* One more term after a text, or before its terms.
LEMMA BesideWrites ==
  ASSUME NEW text, NEW u, Writes(text, u), NEW term \in Readable
  PROVE  /\ Writes(Beside(text, term), UnitTimes(u, Worth(term)))
         /\ Writes(Text(text.number, <<term>> \o text.terms), UnitTimes(u, Worth(term)))
<1> DEFINE a == Factor(text.number)
           b == Product(text.terms)
           w == Worth(term)
<1>1. /\ text.number \in NormalMult /\ text.terms \in Seq(Readable)
      /\ u = UnitTimes(a, b) /\ a \in FlagFree /\ b \in FlagFree
  BY WritesShape
<1>2. Beside(text, term) = Text(text.number, Append(text.terms, term))
  <2>1. text = Text(text.number, text.terms)
    BY DEF Writes, TextType, Text
  <2>2. \A z : [text EXCEPT !.terms = z] = Text(text.number, z)
    BY DEF Writes, TextType, Text
  <2> QED  BY <2>1, <2>2 DEF Beside
<1>3. /\ Append(text.terms, term) \in Seq(Readable)
      /\ Product(Append(text.terms, term)) = UnitTimes(b, w)
  BY <1>1, ProductOfAppend
<1>4. /\ <<term>> \o text.terms \in Seq(Readable)
      /\ Product(<<term>> \o text.terms) = UnitTimes(w, b)
  <2>1. <<term>> \in Seq(Readable) /\ Product(<<term>>) = w
    BY ProductOfOne
  <2> HIDE DEF w
  <2> DEFINE s == <<term>>
             t == text.terms
  <2>2. s \in Seq(Readable) /\ t \in Seq(Readable) /\ Product(s) = w /\ Product(t) = b
    BY <1>1, <2>1
  <2> HIDE DEF s, t, b
  <2>3. s \o t \in Seq(Readable) /\ Product(s \o t) = UnitTimes(w, b)
    BY <2>2, ProductOfConcat
  <2> QED  BY <2>3 DEF s, t
<1>5. w \in FlagFree
  BY WorthTyped
<1>6. Writes(Beside(text, term), UnitTimes(a, UnitTimes(b, w)))
  <2> DEFINE all == Append(text.terms, term)
  <2> HIDE DEF all
  <2>1. Writes(Text(text.number, all), UnitTimes(a, Product(all)))
    BY <1>1, <1>3, TextWrites DEF all
  <2> QED  BY <2>1, <1>2, <1>3 DEF all
<1>7. Writes(Text(text.number, <<term>> \o text.terms), UnitTimes(a, UnitTimes(w, b)))
  BY <1>1, <1>4, TextWrites
<1> HIDE DEF a, b, w
<1>8. UnitTimes(a, UnitTimes(b, w)) = UnitTimes(u, w) /\ UnitTimes(w, b) = UnitTimes(b, w)
  BY <1>1, <1>5, UnitLaws
<1> QED  BY <1>6, <1>7, <1>8 DEF w

\* The inverse of a text stands for the inverse of the unit.
LEMMA InvertedWrites ==
  ASSUME NEW text, NEW u, Writes(text, u)
  PROVE  Writes(Inverted(text), UnitInv(u))
<1>1. /\ text.number \in NormalMult /\ text.terms \in Seq(Readable)
      /\ u = UnitTimes(Factor(text.number), Product(text.terms))
      /\ Factor(text.number) \in FlagFree /\ Product(text.terms) \in FlagFree
  BY WritesShape
<1>2. /\ DividingAll(text.terms) \in Seq(Readable)
      /\ Product(DividingAll(text.terms)) = UnitInv(Product(text.terms))
  BY <1>1, ProductOfDividing
<1>3. MultInv(text.number) \in NormalMult
      /\ Factor(MultInv(text.number)) = UnitInv(Factor(text.number))
  BY <1>1, MultTyped, FactorLaws
<1>4. Writes(Inverted(text), UnitTimes(UnitInv(Factor(text.number)), UnitInv(Product(text.terms))))
  BY <1>2, <1>3, TextWrites DEF Inverted
<1>5. UnitInv(u) = UnitTimes(UnitInv(Factor(text.number)), UnitInv(Product(text.terms)))
  BY <1>1, GroupLaws
<1> QED  BY <1>4, <1>5

\* A number and one name.
LEMMA NameWrites ==
  ASSUME TablesReadBack, NEW mult \in NormalMult, NEW term, NEW u, Names(term, u)
  PROVE  /\ Writes(generateUnitSequence(mult, <<term>>), UnitTimes(Factor(mult), u))
         /\ Writes(WithPrefix(mult, term), UnitTimes(Factor(mult), u))
<1>1. term \in Readable /\ term.prefix = 0 /\ Worth(term) = u
  BY NamesShape, NamesWorth
<1>2. <<term>> \in Seq(Readable) /\ <<term>> # <<>> /\ <<term>>[1] = term /\ Product(<<term>>) = u
  BY <1>1, ProductOfOne
<1>3. Writes(generateUnitSequence(mult, <<term>>), UnitTimes(Factor(mult), u))
  <2> DEFINE terms == <<term>>
  <2>1. terms \in Seq(Readable) /\ terms # <<>> /\ terms[1].prefix = 0 /\ Product(terms) = u
    BY <1>1, <1>2
  <2> HIDE DEF terms
  <2>2. Writes(generateUnitSequence(mult, terms), UnitTimes(Factor(mult), u))
    BY <2>1, SequenceWrites
  <2> QED  BY <2>2 DEF terms
<1>4. CASE IsSIPrefix(mult) /\ term.power = 1
  <2> DEFINE new == [term EXCEPT !.prefix = mult.ten]
  <2>1. mult.ten \in SIPrefix \cup {0} /\ mult = number(mult.ten, 0)
    BY <1>4, OneOrPrefixShape DEF OneOrPrefix
  <2>2. new \in Readable /\ Worth(new) = UnitTimes(Factor(mult), u)
    BY <1>4, <2>1, NamesPrefixed
  <2>3. WithPrefix(mult, term) = Bare(<<new>>)
    BY <1>4 DEF WithPrefix
  <2> HIDE DEF new
  <2>4. <<new>> \in Seq(Readable) /\ Product(<<new>>) = UnitTimes(Factor(mult), u)
    BY <2>2, ProductOfOne
  <2> QED  BY <2>3, <2>4, <1>3, TextWrites
<1>5. CASE ~(IsSIPrefix(mult) /\ term.power = 1)
  BY <1>2, <1>3, <1>5, TextWrites DEF WithPrefix
<1> QED  BY <1>3, <1>4, <1>5

(***************************************************************************)
(* The unit over or times a common unit.                                   *)
(***************************************************************************)
LEMMA ProbeWrites ==
  ASSUME TablesReadBack, NEW u \in FlagFree, NEW p, Names(p.term, p.unit)
  PROVE  /\ DOMAIN probeUnit(u, p) = 1..4
         /\ \A i \in 1..4 : \A text \in probeUnit(u, p)[i] : Writes(text, u)
<1> DEFINE v == p.unit
           t == p.term
           over == UnitTimes(u, v)
           by == UnitDivides(u, v)
           texts == probeUnit(u, p)
<1>1. /\ v \in FlagFree /\ t \in Readable /\ Worth(t) = v
      /\ Dividing(t) \in Readable /\ Worth(Dividing(t)) = UnitInv(v)
  BY NamesShape, NamesWorth, DividingWorth
<1>2. over \in FlagFree /\ by \in FlagFree
      /\ UnitTimes(over, UnitInv(v)) = u /\ UnitTimes(by, v) = u /\ UnitTimes(v, by) = u
  <2> HIDE DEF v, t
  <2> QED  BY <1>1, UnitTyped, UnitLaws, GroupLaws
<1>3. DOMAIN texts = 1..4
      /\ texts[1] = When(HasName(over), Bare(<<NameOf(over), Dividing(t)>>))
      /\ texts[2] = When(HasName(UnitInv(over)),
                         Bare(<<Dividing(NameOf(UnitInv(over))), Dividing(t)>>))
      /\ texts[3] = When(HasName(by), Bare(<<NameOf(by), t>>))
      /\ texts[4] = When(HasName(UnitInv(by)), Bare(<<t, Dividing(NameOf(UnitInv(by)))>>))
  BY DEF probeUnit
<1> HIDE DEF v, t, over, by, texts
<1>4. ASSUME NEW c \in Readable, NEW d \in Readable, UnitTimes(Worth(c), Worth(d)) = u
      PROVE  Writes(Bare(<<c, d>>), u)
  BY <1>4, ProductOfTwo, TextWrites, MultTyped
<1>5. HasName(over) => Writes(Bare(<<NameOf(over), Dividing(t)>>), u)
  BY <1>1, <1>2, <1>4, NamedWrites
<1>6. HasName(UnitInv(over)) => Writes(Bare(<<Dividing(NameOf(UnitInv(over))), Dividing(t)>>), u)
  BY <1>1, <1>2, <1>4, NamedWrites
<1>7. HasName(by) => Writes(Bare(<<NameOf(by), t>>), u)
  BY <1>1, <1>2, <1>4, NamedWrites
<1>8. HasName(UnitInv(by)) => Writes(Bare(<<t, Dividing(NameOf(UnitInv(by)))>>), u)
  BY <1>1, <1>2, <1>4, NamedWrites
<1>9. \A i \in 1..4 : \A text \in texts[i] : Writes(text, u)
  BY <1>3, <1>5, <1>6, <1>7, <1>8 DEF When
<1> QED  BY <1>3, <1>9 DEF texts

\* The texts of probeUnitBase, with a multiplier.
LEMMA ProbeBaseWrites ==
  ASSUME TablesReadBack, NEW u \in FlagFree, NEW p, Names(p.term, p.unit)
  PROVE  /\ DOMAIN probeUnitBase(u, p) = 1..4
         /\ \A i \in 1..4 : \A text \in probeUnitBase(u, p)[i] : Writes(text, u)
<1> DEFINE v == p.unit
           t == p.term
           over == UnitTimes(u, v)
           by == UnitDivides(u, v)
           base(x) == Plain(x.base)
           inverse(x) == Plain(Inv(x.base))
           direct(x) == generateUnitSequence(x.mult, <<NameOf(base(x))>>)
           upside(x) == generateUnitSequence(MultInv(x.mult), <<NameOf(inverse(x))>>)
           prefixed(x) == WithPrefix(MultInv(x.mult), NameOf(inverse(x)))
           texts == probeUnitBase(u, p)
<1>1. /\ v \in FlagFree /\ t \in Readable /\ Worth(t) = v
      /\ Dividing(t) \in Readable /\ Worth(Dividing(t)) = UnitInv(v)
  BY NamesShape, NamesWorth, DividingWorth
<1>2. over \in FlagFree /\ by \in FlagFree
      /\ UnitTimes(over, UnitInv(v)) = u /\ UnitTimes(by, v) = u
      /\ UnitInv(UnitTimes(UnitInv(over), v)) = u
  <2>1. over \in FlagFree /\ by \in FlagFree
        /\ UnitTimes(over, UnitInv(v)) = u /\ UnitTimes(by, v) = u
    <3> HIDE DEF v, t
    <3> QED  BY <1>1, UnitTyped, UnitLaws, GroupLaws
  <2> HIDE DEF v, t, over, by
  <2>2. UnitInv(over) \in FlagFree /\ UnitInv(UnitInv(over)) = over
    BY <2>1, UnitTyped, GroupLaws
  <2>3. UnitInv(UnitTimes(UnitInv(over), v)) = UnitTimes(over, UnitInv(v))
    BY <2>2, <1>1, GroupLaws
  <2> QED  BY <2>1, <2>3
<1>3. /\ DOMAIN texts = 1..4
      /\ texts[1] = When(HasName(base(over)), Beside(direct(over), Dividing(t)))
      /\ texts[2] = When(HasName(inverse(over)), Inverted(Beside(prefixed(over), t)))
      /\ texts[3] = When(HasName(base(by)), Beside(direct(by), t))
      /\ texts[4] = When(HasName(inverse(by)),
                         Text(Inverted(upside(by)).number, <<t>> \o Inverted(upside(by)).terms))
  <2> DEFINE a == When(HasName(base(over)), Beside(direct(over), Dividing(t)))
             b == When(HasName(inverse(over)), Inverted(Beside(prefixed(over), t)))
             c == When(HasName(base(by)), Beside(direct(by), t))
             d == When(HasName(inverse(by)),
                       Text(Inverted(upside(by)).number, <<t>> \o Inverted(upside(by)).terms))
  <2>1. texts = <<a, b, c, d>>
    BY Zenon DEF probeUnitBase
  <2> HIDE DEF a, b, c, d, texts
  <2>2. /\ DOMAIN texts = 1..4
        /\ texts[1] = a /\ texts[2] = b /\ texts[3] = c /\ texts[4] = d
    BY <2>1
  <2> QED  BY <2>2 DEF a, b, c, d
<1>4. ASSUME NEW x \in FlagFree
      PROVE  /\ HasName(base(x)) => Writes(direct(x), x)
             /\ HasName(inverse(x)) => /\ Writes(upside(x), UnitInv(x))
                                       /\ Writes(prefixed(x), UnitInv(x))
  <2>1. /\ x.mult \in NormalMult /\ MultInv(x.mult) \in NormalMult
        /\ base(x) \in FlagFree /\ inverse(x) \in FlagFree
        /\ UnitTimes(Factor(x.mult), base(x)) = x
    BY UnitShape, MultTyped, BaseTyped, UnitTyped, FactorLaws
  <2>2. UnitTimes(Factor(MultInv(x.mult)), inverse(x)) = UnitInv(x)
    <3>1. /\ Factor(MultInv(x.mult)) = UnitInv(Factor(x.mult))
          /\ inverse(x) = UnitInv(base(x))
      BY <2>1, UnitShape, FactorLaws
    <3>2. Factor(x.mult) \in FlagFree
      BY <2>1, UnitTyped
    <3> HIDE DEF base, inverse
    <3> QED  BY <2>1, <3>1, <3>2, GroupLaws
  <2> HIDE DEF base, inverse
  <2>3. HasName(base(x)) => Writes(direct(x), x)
    BY <2>1, NameOfNames, NameWrites
  <2>4. HasName(inverse(x)) => /\ Writes(upside(x), UnitInv(x))
                               /\ Writes(prefixed(x), UnitInv(x))
    BY <2>1, <2>2, NameOfNames, NameWrites
  <2> QED  BY <2>3, <2>4
<1> HIDE DEF v, t, over, by, base, inverse, direct, upside, prefixed, texts
<1>5. HasName(base(over)) => Writes(Beside(direct(over), Dividing(t)), u)
  BY <1>1, <1>2, <1>4, BesideWrites
<1>6. HasName(inverse(over)) => Writes(Inverted(Beside(prefixed(over), t)), u)
  BY <1>1, <1>2, <1>4, BesideWrites, InvertedWrites
<1>7. HasName(base(by)) => Writes(Beside(direct(by), t), u)
  BY <1>1, <1>2, <1>4, BesideWrites
<1>8. HasName(inverse(by)) =>
        Writes(Text(Inverted(upside(by)).number, <<t>> \o Inverted(upside(by)).terms), u)
  <2>1. HasName(inverse(by)) => Writes(Inverted(upside(by)), UnitInv(UnitInv(by)))
    BY <1>2, <1>4, InvertedWrites
  <2>2. UnitInv(UnitInv(by)) = by
    BY <1>2, GroupLaws
  <2> QED  BY <2>1, <2>2, <1>1, <1>2, BesideWrites
<1>9. \A i \in 1..4 : \A text \in texts[i] : Writes(text, u)
  BY <1>3, <1>5, <1>6, <1>7, <1>8 DEF When
<1> QED  BY <1>3, <1>9 DEF texts

NamedAttempt ==
  {a \in [unit : FlagFree, term : NameTerm, exact : BOOLEAN] : Names(a.term, a.unit)}

\* The units that are probed with have names ...
LEMMA AttemptNamed ==
  ASSUME NEW p \in NamedUnit, NEW n \in 1..3, NEW exact \in BOOLEAN
  PROVE  Attempt(p, n, exact) \in NamedAttempt
<1> DEFINE v == UnitPow(p.unit, n)
           t == Raised(p.term, n)
<1>1. Names(p.term, p.unit) /\ n \in Int \ {0}
  BY DEF NamedUnit
<1>2. Names(t, v)
  BY <1>1, NamesRaised
<1>3. v \in FlagFree /\ t \in NameTerm
  BY <1>2, NamesWorth DEF Names
<1>4. Attempt(p, n, exact) = [unit |-> v, term |-> t, exact |-> exact]
  BY DEF Attempt
<1> HIDE DEF v, t
<1> QED  BY <1>2, <1>3, <1>4 DEF NamedAttempt

\* ... and so have their powers ...
LEMMA PowersNamed ==
  ASSUME NEW table \in Seq(NamedUnit), NEW first \in 1..2, NEW exact \in BOOLEAN
  PROVE  Powers(table, first, exact) \in Seq(NamedAttempt)
<1> DEFINE each == 4 - first
           n == each * Len(table)
           at(k) == ((k - 1) \div each) + 1
           power(k) == first + ((k - 1) % each)
<1>1. Len(table) \in Nat /\ \A i \in 1..Len(table) : table[i] \in NamedUnit
  BY SeqShape
<1>2. ASSUME NEW k \in 1..n PROVE at(k) \in 1..Len(table) /\ power(k) \in 1..3
  <2>1. CASE first = 1  BY <1>1, <2>1
  <2>2. CASE first = 2  BY <1>1, <2>2
  <2> QED  BY <2>1, <2>2
<1>3. n \in Nat
  <2>1. CASE first = 1  BY <1>1, <2>1
  <2>2. CASE first = 2  BY <1>1, <2>2
  <2> QED  BY <2>1, <2>2
<1>4. Powers(table, first, exact) = [k \in 1..n |-> Attempt(table[at(k)], power(k), exact)]
  BY DEF Powers
<1> HIDE DEF at, power, n
<1>5. \A k \in 1..n : Attempt(table[at(k)], power(k), exact) \in NamedAttempt
  BY <1>1, <1>2, AttemptNamed
<1>6. [k \in 1..n |-> Attempt(table[at(k)], power(k), exact)] \in [1..n -> NamedAttempt]
  BY <1>5
<1> QED  BY <1>3, <1>4, <1>6

\* ... in all the tables.
LEMMA AttemptsNamed ==
  ASSUME TablesReadBack
  PROVE  Attempts \in Seq(NamedAttempt)
<1> DEFINE n == 2 * Len(TestUnits)
           odd(k) == k % 2 = 1
           tests == [k \in 1..n |-> Attempt(TestUnits[(k + 1) \div 2], 1, odd(k))]
<1>1. /\ UserName \in Seq(NamedUnit) /\ PowerUnits \in Seq(NamedUnit)
      /\ TestUnits \in Seq(NamedUnit)
  BY DEF TablesReadBack
<1>2. Len(TestUnits) \in Nat /\ \A i \in 1..Len(TestUnits) : TestUnits[i] \in NamedUnit
  BY <1>1, SeqShape
<1>3. ASSUME NEW k \in 1..n PROVE (k + 1) \div 2 \in 1..Len(TestUnits) /\ odd(k) \in BOOLEAN
  BY <1>2
<1>4. n \in Nat
  BY <1>2
<1>5. tests \in Seq(NamedAttempt)
  <2> HIDE DEF odd, n
  <2>1. \A k \in 1..n : Attempt(TestUnits[(k + 1) \div 2], 1, odd(k)) \in NamedAttempt
    BY <1>2, <1>3, AttemptNamed, 1 \in 1..3
  <2>2. tests \in [1..n -> NamedAttempt]
    BY <2>1
  <2> QED  BY <1>4, <2>2
<1>6. Attempts = tests \o Powers(UserName, 1, TRUE) \o Powers(PowerUnits, 2, TRUE)
                 \o Powers(UserName, 1, FALSE) \o Powers(PowerUnits, 2, FALSE)
  BY DEF Attempts
<1> HIDE DEF tests
<1>7. /\ Powers(UserName, 1, TRUE) \in Seq(NamedAttempt)
      /\ Powers(PowerUnits, 2, TRUE) \in Seq(NamedAttempt)
      /\ Powers(UserName, 1, FALSE) \in Seq(NamedAttempt)
      /\ Powers(PowerUnits, 2, FALSE) \in Seq(NamedAttempt)
  BY <1>1, PowersNamed, 1 \in 1..2, 2 \in 1..2
<1> DEFINE users == Powers(UserName, 1, TRUE)
           powers == Powers(PowerUnits, 2, TRUE)
           userBases == Powers(UserName, 1, FALSE)
           powerBases == Powers(PowerUnits, 2, FALSE)
<1>8. Attempts = tests \o users \o powers \o userBases \o powerBases
  BY <1>6
<1> HIDE DEF users, powers, userBases, powerBases
<1>9. users \in Seq(NamedAttempt) /\ powers \in Seq(NamedAttempt)
      /\ userBases \in Seq(NamedAttempt) /\ powerBases \in Seq(NamedAttempt)
  BY <1>7 DEF users, powers, userBases, powerBases
<1>10. \A s, t \in Seq(NamedAttempt) : s \o t \in Seq(NamedAttempt)
  BY ConcatProperties
<1> QED  BY <1>5, <1>8, <1>9, <1>10

\* The first text without a number is one of the texts.
LEMMA FirstBareMember ==
  ASSUME NEW n \in Nat, NEW texts, DOMAIN texts = 1..n, NEW text \in FirstBare(texts)
  PROVE  \E i \in 1..n : text \in texts[i]
<1> DEFINE bare(i) == {t \in texts[i] : ~StartsWithNumber(t)}
           inner == [i \in DOMAIN texts |-> bare(i)]
           any == UNION {texts[i] : i \in DOMAIN texts}
           both == <<FirstOf(inner), any>>
<1>1. text \in FirstOf(both)
  BY DEF FirstBare
<1>2. DOMAIN both = 1..2 /\ both[1] = FirstOf(inner) /\ both[2] = any
  OBVIOUS
<1>3. DOMAIN inner = 1..n /\ \A i \in 1..n : inner[i] \subseteq texts[i]
  OBVIOUS
<1>4. any = UNION {texts[i] : i \in 1..n}
  OBVIOUS
<1> HIDE DEF both, inner, any
<1>5. PICK j \in 1..2 : text \in both[j]
  BY <1>1, <1>2, FirstOfMember, 2 \in Nat
<1>6. CASE text \in FirstOf(inner)
  <2>1. \E i \in 1..n : text \in inner[i]
    BY <1>3, <1>6, FirstOfMember
  <2> QED  BY <2>1, <1>3
<1>7. CASE text \in any
  BY <1>4, <1>7
<1>8. j = 1 \/ j = 2
  OBVIOUS
<1> QED  BY <1>2, <1>5, <1>6, <1>7, <1>8

\* Whatever probe is taken, its text stands for the unit.
LEMMA ProbedWrites ==
  ASSUME TablesReadBack, NEW u \in FlagFree, NEW text \in Probed(u)
  PROVE  Writes(text, u)
<1> DEFINE n == Len(Attempts)
           found(p) == FirstBare(IF p.exact THEN probeUnit(u, p) ELSE probeUnitBase(u, p))
           all == [i \in DOMAIN Attempts |-> found(Attempts[i])]
<1>1. n \in Nat /\ DOMAIN Attempts = 1..n /\ \A i \in 1..n : Attempts[i] \in NamedAttempt
  BY AttemptsNamed, SeqShape
<1>2. PICK i \in 1..n : text \in found(Attempts[i])
  <2>1. text \in FirstBare(all)
    BY DEF Probed
  <2>2. DOMAIN all = 1..n /\ \A i \in 1..n : all[i] = found(Attempts[i])
    BY <1>1
  <2> HIDE DEF all, found, n
  <2>3. \E i \in 1..n : text \in all[i]
    BY <2>1, <2>2, <1>1, FirstBareMember
  <2> QED  BY <2>2, <2>3
<1> DEFINE p == Attempts[i]
<1>3. Names(p.term, p.unit)
  BY <1>1 DEF NamedAttempt
<1> HIDE DEF p
<1>4. PICK texts : /\ text \in FirstBare(texts) /\ DOMAIN texts = 1..4
                   /\ \A j \in 1..4 : \A t \in texts[j] : Writes(t, u)
  <2>1. CASE p.exact
    BY <1>2, <1>3, <2>1, ProbeWrites DEF p
  <2>2. CASE ~p.exact
    BY <1>2, <1>3, <2>2, ProbeBaseWrites DEF p
  <2> QED  BY <2>1, <2>2
<1>5. \E j \in 1..4 : text \in texts[j]
  BY <1>4, FirstBareMember, 4 \in Nat
<1> QED  BY <1>4, <1>5

(***************************************************************************)
(* The base units one by one, and with a volt or a watt.                   *)
(***************************************************************************)
LEMMA RawNotEmpty ==
  ASSUME TablesReadBack, NEW u \in FlagFree, unit_type_count(u) # 0
  PROVE  generateRawUnitString(u) # <<>>
<1>1. SUFFICES ASSUME generateRawUnitString(u) = <<>> PROVE u.base = Dimensionless
  BY NoBaseUnits
<1>2. Plain(u.base) = one
  BY <1>1, RawWrites, ProductOfNone DEF RawFor
<1> QED  BY <1>2 DEF Plain, one, precise_unit

\* A sequence whose terms have no prefix.
LEMMA UnprefixedSeq ==
  ASSUME NEW terms \in Seq(Unprefixed)
  PROVE  /\ terms \in Seq(Readable)
         /\ terms # <<>> => terms[1].prefix = 0
<1>1. Unprefixed \subseteq Readable /\ \A t \in Unprefixed : t.prefix = 0
  BY DEF Unprefixed
<1>2. terms \in Seq(Readable)
  BY <1>1
<1>3. terms # <<>> => terms[1] \in Unprefixed
  OBVIOUS
<1> QED  BY <1>1, <1>2, <1>3

\* The base units one by one, with the multiplier.
LEMMA BaseUnitsWrite ==
  ASSUME TablesReadBack, NEW u \in FlagFree, unit_type_count(u) # 0
  PROVE  Writes(generateUnitSequence(u.mult, generateRawUnitString(u)), u)
<1> DEFINE raw == generateRawUnitString(u)
<1>1. raw # <<>> /\ raw \in Seq(Readable) /\ raw[1].prefix = 0 /\ Product(raw) = Plain(u.base)
  BY RawNotEmpty, RawWrites, UnprefixedSeq DEF RawFor
<1>2. u.mult \in NormalMult /\ UnitTimes(Factor(u.mult), Plain(u.base)) = u
  BY UnitShape, FactorLaws
<1> HIDE DEF raw
<1>3. Writes(generateUnitSequence(u.mult, raw), UnitTimes(Factor(u.mult), Product(raw)))
  BY <1>1, <1>2, SequenceWrites
<1> QED  BY <1>1, <1>2, <1>3 DEF raw

\* The volt and the watt, and what is taken out for them.
LEMMA ReducedBy ==
  ASSUME TablesReadBack, NEW i \in DOMAIN creduceUnits
  PROVE  LET by == creduceUnits[i].by
             term == creduceUnits[i].term
         IN term \in Unprefixed /\ Worth(term) = UnitInv(by) /\ by \in FlagFree /\ by.mult = One
<1>1. /\ Names(Term("V", 1), volt) /\ volt.mult = One
      /\ Names(Term("W", 1), watt) /\ watt.mult = One
      /\ volt \in FlagFree /\ watt \in FlagFree
  BY NamesWorth DEF TablesReadBack
<1>2. ASSUME NEW name, NEW v, Names(Term(name, 1), v)
      PROVE  /\ Term(name, 1) \in Unprefixed /\ Worth(Term(name, 1)) = v
             /\ Term(name, -1) \in Unprefixed /\ Worth(Term(name, -1)) = UnitInv(v)
  <2>1. v \in FlagFree
    BY <1>2, NamesWorth
  <2>2. Names(Raised(Term(name, 1), -1), UnitPow(v, -1))
    BY <1>2, NamesRaised, -1 \in Int \ {0}
  <2>3. Raised(Term(name, 1), -1) = Term(name, -1)
    BY <1>2, TermRaised, -1 \in Int \ {0}
  <2>4. Names(Term(name, -1), UnitInv(v))
    BY <2>1, <2>2, <2>3, UnitPowLaws
  <2> QED  BY <1>2, <2>4, NamesShape, NamesWorth DEF Unprefixed
<1> HIDE DEF volt, watt
<1>3. MultInv(One) = One /\ UnitInv(volt) \in FlagFree /\ UnitInv(watt) \in FlagFree
      /\ UnitInv(UnitInv(volt)) = volt /\ UnitInv(UnitInv(watt)) = watt
  <2>1. MultTimes(One, MultInv(One)) = One /\ MultTimes(One, MultInv(One)) = MultInv(One)
    BY MultTyped, MultLaws
  <2> QED  BY <2>1, <1>1, UnitTyped, GroupLaws
<1>4. UnitInv(volt).mult = One /\ UnitInv(watt).mult = One
  BY <1>1, <1>3, UnitShape DEF UnitInv
<1>5. /\ Term("V", 1) \in Unprefixed /\ Worth(Term("V", 1)) = volt
      /\ Term("V", -1) \in Unprefixed /\ Worth(Term("V", -1)) = UnitInv(volt)
      /\ Term("W", 1) \in Unprefixed /\ Worth(Term("W", 1)) = watt
      /\ Term("W", -1) \in Unprefixed /\ Worth(Term("W", -1)) = UnitInv(watt)
  BY <1>1, <1>2
<1>6. DOMAIN creduceUnits = 1..4
      /\ creduceUnits[1] = [by |-> UnitInv(volt), term |-> Term("V", 1)]
      /\ creduceUnits[2] = [by |-> volt, term |-> Term("V", -1)]
      /\ creduceUnits[3] = [by |-> watt, term |-> Term("W", -1)]
      /\ creduceUnits[4] = [by |-> UnitInv(watt), term |-> Term("W", 1)]
  BY DEF creduceUnits
<1>7. i = 1 \/ i = 2 \/ i = 3 \/ i = 4
  BY <1>6
<1> QED  BY <1>1, <1>3, <1>4, <1>5, <1>6, <1>7

\* A unit of lower order and the volt or the watt stand for the unit.
LEMMA ReducedWrites ==
  ASSUME TablesReadBack, NEW u \in FlagFree, unit_type_count(u) # 0
  PROVE  Writes(Reduced(u), u)
<1> DEFINE left(i) == UnitTimes(u, creduceUnits[i].by)
           term(i) == creduceUnits[i].term
           Better(i) == /\ 1 + order(left(i)) < order(u)
                        /\ \A j \in DOMAIN creduceUnits :
                             IF j < i THEN order(left(i)) < order(left(j))
                                      ELSE order(left(i)) <= order(left(j))
           i == CHOOSE k \in DOMAIN creduceUnits : Better(k)
           reduced == generateUnitSequence(u.mult, <<term(i)>> \o generateRawUnitString(left(i)))
<1>1. CASE order(u) > 3 /\ \E k \in DOMAIN creduceUnits : Better(k)
  <2>1. i \in DOMAIN creduceUnits
    BY <1>1
  <2>2. Reduced(u) = reduced
    BY <1>1 DEF Reduced
  <2> HIDE DEF i
  <2> DEFINE by == creduceUnits[i].by
             raw == generateRawUnitString(left(i))
             terms == <<term(i)>> \o raw
  <2>3. term(i) \in Unprefixed /\ Worth(term(i)) = UnitInv(by) /\ by \in FlagFree /\ by.mult = One
    BY <2>1, ReducedBy
  <2>4. term(i) \in Readable
    BY <2>3 DEF Unprefixed
  <2> HIDE DEF by
  <2>5. left(i) = UnitTimes(u, by) /\ left(i) \in FlagFree /\ left(i).mult = u.mult
        /\ u.mult \in NormalMult
    <3>1. u.mult \in NormalMult
      BY UnitShape
    <3>2. UnitTimes(u, by).mult = u.mult
      <4>1. UnitTimes(u, by).mult = MultTimes(u.mult, One)
        BY <2>3, UnitShape DEF UnitTimes
      <4>2. One \in NormalMult
        BY MultTyped
      <4>3. MultTimes(u.mult, One) = MultTimes(One, u.mult) /\ MultTimes(One, u.mult) = u.mult
        BY <3>1, <4>2, MultLaws
      <4> QED  BY <4>1, <4>3
    <3>3. left(i) = UnitTimes(u, by)
      BY DEF by
    <3> QED  BY <2>3, <3>1, <3>2, <3>3, UnitTyped
  <2> HIDE DEF left, term
  <2>6. raw \in Seq(Unprefixed) /\ Product(raw) = Plain(left(i).base)
    BY <2>5, RawWrites DEF RawFor
  <2>7. raw \in Seq(Readable)
    BY <2>6, UnprefixedSeq
  <2>8. <<term(i)>> \in Seq(Readable) /\ Product(<<term(i)>>) = UnitInv(by)
    BY <2>3, <2>4, ProductOfOne
  <2> HIDE DEF raw
  <2>9. terms \in Seq(Readable) /\ Product(terms) = UnitTimes(UnitInv(by), Plain(left(i).base))
    BY <2>6, <2>7, <2>8, ProductOfConcat
  <2>10. terms # <<>> /\ terms[1].prefix = 0
    <3>1. terms # <<>> /\ terms[1] = term(i)
      BY <2>7, <2>8
    <3> QED  BY <2>3, <3>1 DEF Unprefixed
  <2> HIDE DEF terms
  <2>11. Writes(generateUnitSequence(u.mult, terms), UnitTimes(Factor(u.mult), Product(terms)))
    BY <2>5, <2>9, <2>10, SequenceWrites
  <2>12. UnitTimes(Factor(u.mult), Product(terms)) = u
    <3> DEFINE base == Plain(left(i).base)
               ten == Factor(u.mult)
    <3>1. base \in FlagFree /\ ten \in FlagFree /\ UnitInv(by) \in FlagFree
          /\ left(i) = UnitTimes(ten, base)
      BY <2>3, <2>5, UnitShape, UnitTyped, FactorLaws
    <3>2. UnitTimes(left(i), UnitInv(by)) = u
      BY <2>3, <2>5, UnitLaws, GroupLaws
    <3> HIDE DEF base, ten
    <3>3. UnitTimes(ten, UnitTimes(UnitInv(by), base)) = UnitTimes(UnitTimes(ten, base), UnitInv(by))
      BY <3>1, UnitLaws
    <3> QED  BY <2>9, <3>1, <3>2, <3>3 DEF base, ten
  <2> QED  BY <2>2, <2>11, <2>12 DEF terms, raw
<1>2. CASE ~(order(u) > 3 /\ \E k \in DOMAIN creduceUnits : Better(k))
  BY <1>2, BaseUnitsWrite DEF Reduced
<1> QED  BY <1>1, <1>2

(***************************************************************************)
(* The numbered units.  Without flags their number is a multiple of 8, and *)
(* the unit of such a number has no flags.                                 *)
(***************************************************************************)
LEMMA Bits ==
  ASSUME NEW n \in Int
  PROVE  /\ \A k \in 0..9 : bShift(n, k) \in Int
         /\ n % 8 = 0 => FlagsOf(n) = {}
<1>1. /\ 2^0 = 1 /\ 2^1 = 2 /\ 2^2 = 4 /\ 2^3 = 8 /\ 2^4 = 16
      /\ 2^5 = 32 /\ 2^6 = 64 /\ 2^7 = 128 /\ 2^8 = 256 /\ 2^9 = 512
  OBVIOUS
<1>2. ASSUME NEW k \in 0..9 PROVE bShift(n, k) \in Int
  <2>1. k = 0 \/ k = 1 \/ k = 2 \/ k = 3 \/ k = 4 \/ k = 5 \/ k = 6 \/ k = 7 \/ k = 8 \/ k = 9
    OBVIOUS
  <2>2. \A m \in Nat \ {0} : (n \div m) % 2 \in Int
    OBVIOUS
  <2>3. /\ bShift(n, 0) \in Int /\ bShift(n, 1) \in Int /\ bShift(n, 2) \in Int
        /\ bShift(n, 3) \in Int /\ bShift(n, 4) \in Int /\ bShift(n, 5) \in Int
        /\ bShift(n, 6) \in Int /\ bShift(n, 7) \in Int /\ bShift(n, 8) \in Int
        /\ bShift(n, 9) \in Int
    BY <1>1, <2>2 DEF bShift
  <2> QED  BY <2>1, <2>3
<1>3. ASSUME n % 8 = 0 PROVE FlagsOf(n) = {}
  <2>1. n % 2 = 0 /\ (n \div 2) % 2 = 0 /\ (n \div 4) % 2 = 0
    BY <1>3
  <2>2. n \div 1 = n
    OBVIOUS
  <2>3. bShift(n, 0) = 0 /\ bShift(n, 1) = 0 /\ bShift(n, 2) = 0
    BY <1>1, <2>1, <2>2 DEF bShift
  <2>4. \A f \in DOMAIN LowFlag : LowFlag[f] = 0 \/ LowFlag[f] = 1 \/ LowFlag[f] = 2
    BY DEF LowFlag
  <2> QED  BY <2>3, <2>4 DEF FlagsOf
<1> QED  BY <1>2, <1>3

\* The custom units of the numbers that the writer writes have no flags.
LEMMA CustomTyped ==
  ASSUME NEW n \in Int, n % 8 = 0
  PROVE  custom_unit(n) \in FlagFreeBase /\ custom_count_unit(n) \in FlagFreeBase
<1>1. FlagsOf(n) = {} /\ \A k \in 0..9 : bShift(n, k) \in Int
  BY Bits
<1>2. ASSUME NEW powers, \A b \in DOMAIN powers : powers[b] \in Int
      PROVE  unit_data(dim(powers, {}).exp, {}) \in FlagFreeBase
  <2>1. dim(powers, {}).exp \in [Base -> Int]
    BY <1>2 DEF dim
  <2> DEFINE e == dim(powers, {}).exp
  <2> HIDE DEF e
  <2>2. unit_data(e, {}) \in UnitDataType /\ InFields(unit_data(e, {}))
    BY <2>1, StoreTyped DEF e
  <2>3. unit_data(e, {}).flags = {}
    BY DEF unit_data
  <2> QED  BY <2>2, <2>3 DEF FlagFreeBase, e
<1> DEFINE exps == [meter |-> 7 - 4 * bShift(n, 8), kilogram |-> -2 + 3 * bShift(n, 7),
                    second |-> 7 * bShift(n, 9),
                    ampere |-> MinVal("ampere") + 1 - bShift(n, 6),
                    kelvin |-> 3 * bShift(n, 4), mole |-> MinVal("mole"),
                    candela |-> -2 + 2 * bShift(n, 5), currency |-> -2 * bShift(n, 3)]
           counts == [ampere |-> 3, kelvin |-> -3, candela |-> -bShift(n, 3)]
<1>3. MinVal("ampere") \in Int /\ MinVal("mole") \in Int
  BY BaseAssumption DEF MinVal
<1>4. \A b \in DOMAIN exps : exps[b] \in Int
  <2>1. /\ bShift(n, 3) \in Int /\ bShift(n, 4) \in Int /\ bShift(n, 5) \in Int
        /\ bShift(n, 6) \in Int /\ bShift(n, 7) \in Int /\ bShift(n, 8) \in Int
        /\ bShift(n, 9) \in Int
    BY <1>1
  <2> QED  BY <1>3, <2>1
<1>5. \A b \in DOMAIN counts : counts[b] \in Int
  <2>1. bShift(n, 3) \in Int
    BY <1>1
  <2> QED  BY <2>1
<1>6. custom_unit(n) = unit_data(dim(exps, {}).exp, {})
  BY <1>1 DEF custom_unit
<1>7. custom_count_unit(n) = unit_data(dim(counts, {}).exp, {})
  BY <1>1 DEF custom_count_unit
<1> HIDE DEF exps, counts
<1> QED  BY <1>2, <1>4, <1>5, <1>6, <1>7

\* The numbers that are written for units without flags.
LEMMA CustomNumber ==
  ASSUME NEW u \in FlagFreeBase
  PROVE  /\ custom_unit_number(u) \in Int /\ custom_unit_number(u) % 8 = 0
         /\ custom_count_unit_number(u) \in Int /\ custom_count_unit_number(u) % 8 = 0
<1> DEFINE a == If(Abs(u.exp["meter"]) < 4, 256)
           b == If(Abs(u.exp["second"]) >= 6, 512)
           c == If(Abs(u.exp["kilogram"]) <= 1, 128)
           d == If(Abs(u.exp["kelvin"]) = 3, 16)
           e == If(u.exp["ampere"] = MinVal("ampere"), 64)
           f == If(Abs(u.exp["candela"]) < 2, 32)
           g == If(Abs(u.exp["currency"]) >= 2, 8)
           h == If(u.exp["candela"] # 0, 8)
<1>1. FlagBits(u) = 0
  BY FreeShape DEF FlagBits, Free
<1>2. /\ custom_unit_number(u) = 0 + a + b + c + d + e + f + g
      /\ custom_count_unit_number(u) = 0 + h
  BY <1>1 DEF custom_unit_number, custom_count_unit_number
<1>3. /\ a = 0 \/ a = 256
      /\ b = 0 \/ b = 512
      /\ c = 0 \/ c = 128
      /\ d = 0 \/ d = 16
      /\ e = 0 \/ e = 64
      /\ f = 0 \/ f = 32
      /\ g = 0 \/ g = 8
      /\ h = 0 \/ h = 8
  BY DEF If
<1> HIDE DEF a, b, c, d, e, f, g, h
<1>4. /\ a \in Int /\ b \in Int /\ c \in Int /\ d \in Int /\ e \in Int /\ f \in Int
      /\ g \in Int /\ h \in Int
      /\ a % 8 = 0 /\ b % 8 = 0 /\ c % 8 = 0 /\ d % 8 = 0 /\ e % 8 = 0 /\ f % 8 = 0
      /\ g % 8 = 0 /\ h % 8 = 0
  BY <1>3
<1>5. 0 + a + b + c + d + e + f + g \in Int /\ (0 + a + b + c + d + e + f + g) % 8 = 0
  BY <1>4
<1>6. 0 + h \in Int /\ (0 + h) % 8 = 0
  BY <1>4
<1> QED  BY <1>2, <1>5, <1>6

\* The term of a numbered unit reads as the unit, and dividing by it leaves
\* what else there is.
LEMMA CustomTermReads ==
  ASSUME TablesReadBack, NEW u \in FlagFree, NEW cx,
         \/ \E k \in {-1, 1} : cx = Coded("CXUN", custom_unit_number(u.base), k)
         \/ \E k \in {-1, 1} : cx = Coded("CXCUN", custom_count_unit_number(u.base), k)
  PROVE  LET urem == clear_flags(UnitDivides(u, ReadTerm(cx)))
         IN cx \in Readable /\ urem \in FlagFree /\ UnitTimes(urem, Worth(cx)) = u
<1>1. u.base \in FlagFreeBase
  BY UnitShape
<1>2. PICK n \in Int, k \in {-1, 1}, name \in {"CXUN", "CXCUN"} :
        n % 8 = 0 /\ cx = Coded(name, n, k)
  BY <1>1, CustomNumber
<1>3. /\ cx.name = name /\ cx.code = n /\ cx.power = k /\ cx.prefix = 0 /\ ~cx.divides
      /\ cx \in TermType
  <2>1. name \in Vocabulary /\ k \in Int \ {0}
    <3>1. name = "CXUN" \/ name = "CXCUN"
      BY <1>2
    <3>2. k = -1 \/ k = 1
      BY <1>2
    <3>3. name \in Vocabulary
      BY <3>1 DEF Vocabulary
    <3> QED  BY <3>2, <3>3
  <2>2. Term(name, k) \in TermType
    BY <2>1 DEF Term, TermType
  <2> QED  BY <1>2, <2>1, <2>2 DEF Coded, Term, TermType
<1>4. Known(cx) \in FlagFree
  <2>1. custom_unit(n) \in FlagFreeBase /\ custom_count_unit(n) \in FlagFreeBase
    BY <1>2, CustomTyped
  <2>2. Known(cx) = Plain(custom_unit(n)) \/ Known(cx) = Plain(custom_count_unit(n))
    BY <1>3 DEF Known
  <2> QED  BY <2>1, <2>2, UnitTyped
<1>5. cx \in Readable
  BY <1>3, <1>4 DEF Readable
<1>6. ReadTerm(cx) = Worth(cx)
  <2>1. <<cx.prefix, cx.name, cx.power>> \notin Clash
    BY <1>3 DEF TablesReadBack
  <2>2. SignedPower(cx) = cx.power
    BY <1>3 DEF SignedPower
  <2> QED  BY <2>1, <2>2 DEF ReadTerm, Worth, Stem, Factor
<1>7. Worth(cx) \in FlagFree /\ UnitDivides(u, Worth(cx)) \in FlagFree
      /\ UnitTimes(UnitDivides(u, Worth(cx)), Worth(cx)) = u
  BY <1>5, WorthTyped, UnitTyped, GroupLaws
<1>8. ASSUME NEW v \in FlagFree PROVE clear_flags(v) = v
  <2>1. v = precise_unit(v.mult, v.base) /\ v.base = Free(v.base.exp)
    BY UnitShape, FreeShape
  <2> QED  BY <2>1 DEF clear_flags, precise_unit, Free
<1> QED  BY <1>5, <1>6, <1>7, <1>8

(***************************************************************************)
(* Multipliers that may be INF, NaN or 0.                                  *)
(***************************************************************************)
\* INF, NaN and 0, part by part.
LEMMA SpecialShape ==
  /\ \A m \in SpecialMult : /\ m = special(m.class, m.neg) /\ ~IsNormal(m)
                            /\ m.neg \in BOOLEAN /\ m.class \in {"INF", "NaN", "0"}
  /\ \A class \in {"INF", "NaN", "0"}, neg \in BOOLEAN : special(class, neg) \in SpecialMult
<1>2. \A m \in SpecialMult : /\ m = special(m.class, m.neg) /\ ~IsNormal(m)
                             /\ m.neg \in BOOLEAN /\ m.class \in {"INF", "NaN", "0"}
  BY DEF SpecialMult, special, IsNormal
<1>3. \A class \in {"INF", "NaN", "0"}, neg \in BOOLEAN : special(class, neg) \in SpecialMult
  BY DEF SpecialMult, special
<1> QED  BY <1>2, <1>3

\* An ordinary multiplier changes no more than their sign.
LEMMA SpecialTimes ==
  ASSUME NEW s \in SpecialMult, NEW m \in NormalMult
  PROVE  /\ MultTimes(s, m) = special(s.class, Differ(s.neg, m.neg))
         /\ MultTimes(m, s) = special(s.class, Differ(m.neg, s.neg))
         /\ MultTimes(s, m) \in SpecialMult
<1>1. ~IsNormal(s) /\ IsNormal(m) /\ s.neg \in BOOLEAN /\ m.neg \in BOOLEAN
      /\ s.class \in {"INF", "NaN", "0"}
  BY SpecialShape, NormalShape
<1>2. MultTimes(s, m) = special(s.class, Differ(s.neg, m.neg))
  BY <1>1, SpecialShape DEF MultTimes, Differ
<1>3. MultTimes(m, s) = special(s.class, Differ(m.neg, s.neg))
  BY <1>1, SpecialShape DEF MultTimes, Differ
<1>4. MultTimes(s, m) \in SpecialMult
  <2> DEFINE d == Differ(s.neg, m.neg)
  <2>1. d \in BOOLEAN
    BY <1>1, SignLaws
  <2> HIDE DEF d
  <2>2. special(s.class, d) \in SpecialMult
    BY <1>1, <2>1, SpecialShape
  <2> QED  BY <1>2, <2>2 DEF d
<1> QED  BY <1>2, <1>3, <1>4

\* Ordinary multipliers may be taken into any multiplier.
LEMMA AnyMultLaws ==
  ASSUME NEW n \in AnyMult, NEW a \in NormalMult, NEW b \in NormalMult
  PROVE  /\ MultTimes(n, a) \in AnyMult
         /\ MultTimes(MultTimes(n, a), b) = MultTimes(n, MultTimes(a, b))
         /\ MultTimes(n, One) = n
         /\ MultTimes(One, n) = n
<1>o. One \in NormalMult /\ One.neg = FALSE
  BY MultTyped DEF One, number
<1>1. CASE n \in NormalMult
  <2>1. MultTimes(n, One) = MultTimes(One, n) /\ MultTimes(One, n) = n
    BY <1>1, <1>o, MultLaws
  <2> QED  BY <1>1, <2>1, MultTyped, MultLaws DEF AnyMult
<1>2. CASE n \in SpecialMult
  <2> DEFINE na == MultTimes(n, a)
             ab == MultTimes(a, b)
  <2>1. n = special(n.class, n.neg) /\ n.neg \in BOOLEAN /\ a.neg \in BOOLEAN /\ b.neg \in BOOLEAN
    BY <1>2, SpecialShape, NormalShape
  <2>2. na \in SpecialMult /\ na = special(n.class, Differ(n.neg, a.neg))
    BY <1>2, SpecialTimes
  <2>3. na.class = n.class /\ na.neg = Differ(n.neg, a.neg)
    BY <2>2 DEF special
  <2>4. ab \in NormalMult /\ ab.neg = Differ(a.neg, b.neg)
    BY MultTyped, MultShape DEF Normal
  <2> HIDE DEF na, ab
  <2>5. MultTimes(na, b) = special(n.class, Differ(Differ(n.neg, a.neg), b.neg))
    BY <2>2, <2>3, SpecialTimes
  <2>6. MultTimes(n, ab) = special(n.class, Differ(n.neg, Differ(a.neg, b.neg)))
    BY <1>2, <2>4, SpecialTimes
  <2>7. MultTimes(na, b) = MultTimes(n, ab)
    BY <2>1, <2>5, <2>6, SignLaws
  <2>8. MultTimes(One, n) = special(n.class, Differ(One.neg, n.neg))
        /\ MultTimes(n, One) = special(n.class, Differ(n.neg, One.neg))
    BY <1>2, <1>o, SpecialTimes
  <2>9. Differ(One.neg, n.neg) = n.neg /\ Differ(n.neg, One.neg) = n.neg
    BY <1>o, <2>1 DEF Differ
  <2> QED  BY <2>1, <2>2, <2>7, <2>8, <2>9 DEF na, ab, AnyMult
<1> QED  BY <1>1, <1>2 DEF AnyMult

(***************************************************************************)
(* What a number, terms, a unit that is left and more terms stand for.     *)
(***************************************************************************)
Scaled(n, u) == precise_unit(MultTimes(n, u.mult), u.base)
Whole(n, s, u, t) == Scaled(n, UnitTimes(Product(s), UnitTimes(u, Product(t))))

\* A multiplier on the left may be moved to the unit.
LEMMA ScaledLaws ==
  ASSUME NEW n \in AnyMult, NEW m \in NormalMult, NEW u \in FlagFree
  PROVE  /\ Scaled(MultTimes(n, m), u) = Scaled(n, UnitTimes(Factor(m), u))
         /\ Scaled(One, u) = u
         /\ MultTimes(n, m) \in AnyMult
<1>1. u.mult \in NormalMult /\ u.base \in FlagFreeBase /\ u = precise_unit(u.mult, u.base)
  BY UnitShape
<1>2. UnitTimes(Factor(m), u) = precise_unit(MultTimes(m, u.mult), u.base)
  BY <1>1, BaseLaws, BaseTyped, UnitShape DEF UnitTimes, Factor
<1>3. MultTimes(MultTimes(n, m), u.mult) = MultTimes(n, MultTimes(m, u.mult))
      /\ MultTimes(n, m) \in AnyMult
  BY <1>1, AnyMultLaws
<1>4. MultTimes(One, u.mult) = u.mult
  BY <1>1, MultLaws
<1> QED  BY <1>1, <1>2, <1>3, <1>4, UnitShape DEF Scaled

\* Writing all that is left.
LEMMA WholeFinished ==
  ASSUME NEW n \in AnyMult, NEW s \in Seq(Readable), NEW t \in Seq(Readable), NEW u,
         NEW text, Writes(text, u)
  PROVE  /\ s \o text.terms \o t \in Seq(Readable)
         /\ Scaled(MultTimes(n, text.number), Product(s \o text.terms \o t)) = Whole(n, s, u, t)
<1> DEFINE a == Product(s)
           b == Product(t)
           c == Product(text.terms)
           ten == Factor(text.number)
           all == s \o text.terms \o t
<1>1. /\ text.number \in NormalMult /\ text.terms \in Seq(Readable) /\ u = UnitTimes(ten, c)
      /\ ten \in FlagFree /\ c \in FlagFree /\ a \in FlagFree /\ b \in FlagFree
  BY WritesShape, ProductTyped
<1>2. s \o text.terms \in Seq(Readable) /\ Product(s \o text.terms) = UnitTimes(a, c)
  BY <1>1, ProductOfConcat
<1>3. all \in Seq(Readable) /\ Product(all) = UnitTimes(UnitTimes(a, c), b)
  BY <1>2, ProductOfConcat
<1> HIDE DEF a, b, c, ten, all
<1>4. UnitTimes(ten, UnitTimes(UnitTimes(a, c), b)) = UnitTimes(a, UnitTimes(UnitTimes(ten, c), b))
  <2>1. UnitTimes(UnitTimes(a, c), b) = UnitTimes(a, UnitTimes(c, b))
    BY <1>1, UnitLaws
  <2>2. UnitTimes(ten, UnitTimes(a, UnitTimes(c, b))) = UnitTimes(UnitTimes(ten, a), UnitTimes(c, b))
    BY <1>1, UnitTyped, UnitLaws
  <2>3. UnitTimes(UnitTimes(a, ten), UnitTimes(c, b)) = UnitTimes(a, UnitTimes(ten, UnitTimes(c, b)))
    BY <1>1, UnitTyped, UnitLaws
  <2>4. UnitTimes(ten, UnitTimes(c, b)) = UnitTimes(UnitTimes(ten, c), b)
    BY <1>1, UnitLaws
  <2>5. UnitTimes(ten, a) = UnitTimes(a, ten)
    BY <1>1, UnitLaws
  <2> QED  BY <2>1, <2>2, <2>3, <2>4, <2>5
<1>5. Scaled(MultTimes(n, text.number), Product(all)) = Scaled(n, UnitTimes(ten, Product(all)))
  BY <1>1, <1>3, ProductTyped, ScaledLaws DEF ten
<1> QED  BY <1>1, <1>3, <1>4, <1>5 DEF Whole, a, b, all

\* Writing a part around the rest.
LEMMA WholeAround ==
  ASSUME NEW n \in AnyMult, NEW s \in Seq(Readable), NEW t \in Seq(Readable), NEW u,
         NEW m \in NormalMult, NEW p \in Seq(Readable), NEW q \in Seq(Readable),
         NEW rest \in FlagFree,
         u = UnitTimes(Factor(m), UnitTimes(Product(p), UnitTimes(rest, Product(q))))
  PROVE  /\ s \o p \in Seq(Readable) /\ q \o t \in Seq(Readable)
         /\ Whole(MultTimes(n, m), s \o p, rest, q \o t) = Whole(n, s, u, t)
<1> DEFINE a == Product(s)
           b == Product(t)
           c == Product(p)
           d == Product(q)
           ten == Factor(m)
<1>1. /\ a \in FlagFree /\ b \in FlagFree /\ c \in FlagFree /\ d \in FlagFree
      /\ ten \in FlagFree
  BY ProductTyped, UnitTyped
<1>2. /\ s \o p \in Seq(Readable) /\ Product(s \o p) = UnitTimes(a, c)
      /\ q \o t \in Seq(Readable) /\ Product(q \o t) = UnitTimes(d, b)
  BY ProductOfConcat
<1> DEFINE left == UnitTimes(UnitTimes(a, c), UnitTimes(rest, UnitTimes(d, b)))
           crd == UnitTimes(c, UnitTimes(rest, d))
<1> HIDE DEF a, b, c, d, ten
<1>3. /\ left \in FlagFree /\ crd \in FlagFree /\ u = UnitTimes(ten, crd)
  BY <1>1, UnitTyped DEF a, b, c, d, ten
<1>4. left = UnitTimes(a, UnitTimes(crd, b))
  <2>1. UnitTimes(rest, UnitTimes(d, b)) = UnitTimes(UnitTimes(rest, d), b)
    BY <1>1, UnitLaws
  <2>2. UnitTimes(UnitTimes(a, c), UnitTimes(UnitTimes(rest, d), b))
          = UnitTimes(a, UnitTimes(c, UnitTimes(UnitTimes(rest, d), b)))
    BY <1>1, UnitTyped, UnitLaws
  <2>3. UnitTimes(c, UnitTimes(UnitTimes(rest, d), b)) = UnitTimes(crd, b)
    BY <1>1, UnitTyped, UnitLaws
  <2> QED  BY <2>1, <2>2, <2>3
<1> HIDE DEF left, crd
<1>5. UnitTimes(ten, left) = UnitTimes(a, UnitTimes(u, b))
  <2>1. UnitTimes(ten, UnitTimes(a, UnitTimes(crd, b))) = UnitTimes(UnitTimes(ten, a), UnitTimes(crd, b))
    BY <1>1, <1>3, UnitTyped, UnitLaws
  <2>2. UnitTimes(UnitTimes(a, ten), UnitTimes(crd, b)) = UnitTimes(a, UnitTimes(ten, UnitTimes(crd, b)))
    BY <1>1, <1>3, UnitTyped, UnitLaws
  <2>3. UnitTimes(ten, UnitTimes(crd, b)) = UnitTimes(u, b) /\ UnitTimes(ten, a) = UnitTimes(a, ten)
    BY <1>1, <1>3, UnitLaws
  <2> QED  BY <1>4, <2>1, <2>2, <2>3
<1>6. Scaled(MultTimes(n, m), left) = Scaled(n, UnitTimes(ten, left))
  BY <1>3, ScaledLaws DEF ten
<1> QED  BY <1>2, <1>5, <1>6 DEF Whole, left, a, b

(***************************************************************************)
(* clean_unit_string.                                                      *)
(***************************************************************************)
Ten(k) == Factor(number(k, 0))

\* Powers of ten.
LEMMA TenLaws ==
  /\ \A k \in Int : number(k, 0) \in NormalMult /\ Ten(k) \in FlagFree
  /\ \A j, k \in Int : UnitTimes(Ten(j), Ten(k)) = Ten(j + k)
  /\ Ten(0) = one
<1>1. \A k \in Int : number(k, 0) \in NormalMult /\ Ten(k) \in FlagFree
  BY PrefixTyped, UnitTyped DEF Ten
<1>2. ASSUME NEW j \in Int, NEW k \in Int PROVE UnitTimes(Ten(j), Ten(k)) = Ten(j + k)
  <2> DEFINE m == number(j, 0)
             n == number(k, 0)
  <2>1. /\ m \in NormalMult /\ n \in NormalMult /\ m.ten = j /\ n.ten = k
        /\ m.sixty = 0 /\ n.sixty = 0 /\ m.neg = FALSE /\ n.neg = m.neg
    BY <1>1 DEF number
  <2>2. m.neg \in BOOLEAN
    BY <2>1
  <2> HIDE DEF m, n
  <2>3. Differ(m.neg, n.neg) = FALSE
    BY <2>1, <2>2, SignLaws
  <2>4. MultTimes(m, n) = Normal(FALSE, j + k, 0)
    <3>1. MultTimes(m, n) = Normal(Differ(m.neg, n.neg), m.ten + n.ten, m.sixty + n.sixty)
      BY <2>1, MultShape
    <3>2. m.sixty + n.sixty = 0
      BY <2>1
    <3> QED  BY <2>1, <2>3, <3>1, <3>2
  <2>5. Normal(FALSE, j + k, 0) = number(j + k, 0)
    BY DEF Normal, number
  <2>6. UnitTimes(Factor(m), Factor(n)) = Factor(MultTimes(m, n))
    BY <2>1, FactorLaws
  <2> QED  BY <2>4, <2>5, <2>6 DEF Ten, m, n
<1>3. Ten(0) = one
  BY FactorLaws DEF Ten, One
<1> QED  BY <1>1, <1>2, <1>3

Cleaned(term) == [Clean(term) EXCEPT !.divides = term.divides]
Rewritten(term) == (term.prefix = 9 /\ term.name = "s") \/ IsMm3(term)
Milliard(term) == IF ~IsMm3(term) THEN 0 ELSE IF term.divides THEN -1 ELSE 1

\* A cleaned term is worth what it was, but for the milliard of a Mm^3.
LEMMA CleanedWorth ==
  ASSUME TablesReadBack, NEW term \in Readable
  PROVE  /\ Cleaned(term) \in Readable /\ Milliard(term) \in Int
         /\ Worth(term) = UnitTimes(Ten(9 * Milliard(term)), Worth(Cleaned(term)))
<1> DEFINE new == Cleaned(term)
           k == SignedPower(term)
<1>1. /\ term \in TermType /\ Known(term) \in FlagFree /\ term.divides \in BOOLEAN
      /\ term.power \in Int \ {0} /\ k \in Int /\ Worth(term) \in FlagFree
  BY WorthTyped DEF Readable, TermType
<1>2. term = Altered(term, term.divides, term.prefix, term.power)
  BY <1>1 DEF TermType, Altered
<1>3. CASE term.prefix = 9 /\ term.name = "s"
  <2> DEFINE bs == Term("Bs", 1)
  <2>1. Names(bs, TenTo(9, Axis("second"))) /\ Names(Term("s", 1), Axis("second"))
    <3>1. 3 \in DOMAIN RawNames /\ RawNames[3] = <<"second", "s">>
      BY DEF RawNames
    <3> QED  BY <3>1 DEF TablesReadBack
  <2>2. new = Altered(bs, term.divides, 0, term.power)
    BY <1>3 DEF Cleaned, Clean, Term, Altered
  <2>3. bs \in Readable /\ Known(bs) = TenTo(9, Axis("second"))
    BY <2>1, NamesShape, UnitPowLaws DEF Names, Term
  <2>4. Known(Term("s", 1)) = Axis("second")
    BY <2>1, UnitPowLaws DEF Names, Term
  <2>5. Known(term) = Axis("second")
    BY <1>3, <2>4 DEF Known, Term
  <2>6. 0 \in SIPrefix \cup {0}
    OBVIOUS
  <2> HIDE DEF new, bs
  <2>7. new \in Readable /\ Worth(new) = UnitPow(Stem(0, bs), k)
    BY <1>1, <2>2, <2>3, <2>6, AlteredWorth DEF SignedPower
  <2>8. Stem(0, bs) = Stem(9, term)
    <3>1. Stem(0, bs) = Known(bs)
      BY <2>3, StemLaws DEF Readable
    <3> QED  BY <2>3, <2>5, <3>1 DEF Stem, TenTo, Factor
  <2>9. Worth(term) = Worth(new)
    BY <1>3, <2>7, <2>8 DEF Worth
  <2>10. Milliard(term) = 0 /\ 9 * 0 = 0
    BY <1>3 DEF Milliard, IsMm3
  <2> QED  BY <1>1, <2>7, <2>9, <2>10, TenLaws, UnitLaws DEF new
<1>4. CASE IsMm3(term)
  <2>1. term.prefix = 6 /\ term.power = 3 /\ term.name = "m"
    BY <1>4 DEF IsMm3
  <2>2. new = Altered(term, term.divides, 3, 3)
    <3>1. Clean(term) = [term EXCEPT !.prefix = 3]
      BY <1>4, <2>1 DEF Clean
    <3>2. Clean(term) = Altered(term, term.divides, 3, 3)
      BY <1>1, <2>1, <3>1 DEF TermType, Altered
    <3> QED  BY <3>2 DEF Cleaned, Altered
  <2>3. 3 \in SIPrefix \cup {0} /\ 3 \in Int \ {0}
    BY DEF SIPrefix
  <2> HIDE DEF new
  <2>4. new \in Readable /\ Worth(new) = UnitPow(Stem(3, term), k)
    BY <1>1, <2>1, <2>2, <2>3, AlteredWorth DEF SignedPower
  <2>5. UnitPow(Stem(3, term), k) = UnitTimes(Ten(3 * k), UnitPow(Known(term), k))
        /\ Worth(term) = UnitTimes(Ten(6 * k), UnitPow(Known(term), k))
    BY <1>1, <2>1, StemLaws DEF Ten, Worth
  <2>6. Milliard(term) \in Int /\ 9 * Milliard(term) = 3 * k
    BY <1>4, <2>1 DEF Milliard, SignedPower
  <2>7. UnitTimes(Ten(3 * k), Ten(3 * k)) = Ten(6 * k)
    <3>1. 3 * k \in Int /\ 3 * k + 3 * k = 6 * k
      BY <1>1
    <3> QED  BY <3>1, TenLaws
  <2>8. Worth(term) = UnitTimes(Ten(3 * k), Worth(new))
    <3> DEFINE t == 3 * k
               p == UnitPow(Known(term), k)
    <3>1. t \in Int /\ p \in FlagFree /\ Ten(t) \in FlagFree
      <4>1. t \in Int
        BY <1>1
      <4>2. p \in FlagFree
        BY <1>1, UnitTyped
      <4> HIDE DEF t, p
      <4> QED  BY <4>1, <4>2, TenLaws
    <3> HIDE DEF t, p
    <3>2. UnitTimes(UnitTimes(Ten(t), Ten(t)), p) = UnitTimes(Ten(t), UnitTimes(Ten(t), p))
      BY <3>1, UnitLaws
    <3> QED  BY <2>4, <2>5, <2>7, <3>2 DEF t, p
  <2> QED  BY <2>4, <2>6, <2>8 DEF new
<1>5. CASE ~(term.prefix = 9 /\ term.name = "s") /\ ~IsMm3(term)
  <2>1. new = term
    <3>1. Clean(term) = term
      BY <1>5 DEF Clean
    <3> QED  BY <3>1, <1>1 DEF Cleaned, TermType
  <2>2. Milliard(term) = 0 /\ 9 * 0 = 0
    BY <1>5 DEF Milliard
  <2> QED  BY <1>1, <2>1, <2>2, TenLaws, UnitLaws
<1> QED  BY <1>3, <1>4, <1>5

\* No cleaned term is one that the cleaning rewrites.
LEMMA CleanedOnce ==
  ASSUME NEW term \in Readable
  PROVE  ~Rewritten(Cleaned(term))
<1>1. term \in TermType
  BY DEF Readable
<1>2. CASE term.prefix = 9 /\ term.name = "s"
  <2>1. Cleaned(term).prefix = 0
    BY <1>2 DEF Cleaned, Clean, Term
  <2> QED  BY <2>1 DEF Rewritten, IsMm3
<1>3. CASE IsMm3(term)
  <2>1. Clean(term) = [term EXCEPT !.prefix = 3]
    BY <1>3 DEF Clean, IsMm3
  <2>2. Cleaned(term).prefix = 3
    BY <1>1, <2>1 DEF Cleaned, TermType
  <2> QED  BY <2>2 DEF Rewritten, IsMm3
<1>4. CASE ~Rewritten(term)
  <2>1. Clean(term) = term
    BY <1>4 DEF Clean, Rewritten
  <2>2. Cleaned(term) = term
    BY <1>1, <2>1 DEF Cleaned, TermType
  <2> QED  BY <1>4, <2>2
<1> QED  BY <1>2, <1>3, <1>4 DEF Rewritten

\* How many of 1, ..., k are in P.
CountTo(P, k) == Cardinality((1..k) \cap P)

\* The count starts at 0 and goes up with each member.
LEMMA CountToLaws ==
  ASSUME NEW P, NEW k \in Nat
  PROVE  /\ CountTo(P, k) \in Nat
         /\ CountTo(P, 0) = 0
         /\ k # 0 => CountTo(P, k) = CountTo(P, k - 1) + (IF k \in P THEN 1 ELSE 0)
<1>1. \A n \in Nat : IsFiniteSet((1..n) \cap P)
  <2>1. \A n \in Nat : IsFiniteSet(1..n) /\ (1..n) \cap P \in SUBSET (1..n)
    BY FS_Interval
  <2> QED  BY <2>1, FS_Subset
<1>2. CountTo(P, k) \in Nat
  BY <1>1, FS_CardinalityType DEF CountTo
<1>3. CountTo(P, 0) = 0
  <2>1. (1..0) \cap P = {}
    OBVIOUS
  <2> QED  BY <2>1, FS_EmptySet DEF CountTo
<1>4. ASSUME k # 0
      PROVE  CountTo(P, k) = CountTo(P, k - 1) + (IF k \in P THEN 1 ELSE 0)
  <2> DEFINE S == (1..(k - 1)) \cap P
  <2>1. k - 1 \in Nat /\ k \notin 1..(k - 1) /\ 1..k = (1..(k - 1)) \cup {k}
    BY <1>4
  <2>2. IsFiniteSet(S) /\ Cardinality(S) \in Nat
    BY <1>1, <2>1, FS_CardinalityType
  <2>3. CASE k \in P
    <3>1. (1..k) \cap P = S \cup {k} /\ k \notin S
      BY <2>1, <2>3
    <3> HIDE DEF S
    <3>2. Cardinality(S \cup {k}) = Cardinality(S) + 1
      BY <2>2, <3>1, FS_AddElement
    <3> QED  BY <2>3, <3>1, <3>2 DEF CountTo, S
  <2>4. CASE k \notin P
    <3>1. (1..k) \cap P = S
      BY <2>1, <2>4
    <3> QED  BY <2>2, <2>4, <3>1 DEF CountTo
  <2> QED  BY <2>3, <2>4
<1> QED  BY <1>2, <1>3, <1>4

\* The places of the Mm^3 that multiply, or that divide.
Mm3s(terms, divides) ==
  {i \in DOMAIN terms : IsMm3(terms[i]) /\ terms[i].divides = divides}

\* The cleaned terms are worth what the terms were, but for their milliards.
LEMMA CleanedProduct ==
  ASSUME TablesReadBack, NEW terms \in Seq(Readable)
  PROVE  LET new == [i \in DOMAIN terms |-> Cleaned(terms[i])]
             up == Cardinality(Mm3s(terms, FALSE))
             down == Cardinality(Mm3s(terms, TRUE))
         IN /\ new \in Seq(Readable) /\ up \in Nat /\ down \in Nat
            /\ Product(terms) = UnitTimes(Ten(9 * (up - down)), Product(new))
<1> DEFINE n == Len(terms)
           new == [i \in DOMAIN terms |-> Cleaned(terms[i])]
           ups == Mm3s(terms, FALSE)
           downs == Mm3s(terms, TRUE)
           sum(k) == 9 * (CountTo(ups, k) - CountTo(downs, k))
<1>1. n \in Nat /\ DOMAIN terms = 1..n /\ \A k \in 1..n : terms[k] \in Readable
  BY SeqShape
<1>2. /\ new \in Seq(Readable) /\ Len(new) = n
      /\ \A k \in 1..n : new[k] = Cleaned(terms[k]) /\ new[k] \in Readable
  <2>1. new = [i \in 1..n |-> Cleaned(terms[i])]
    BY <1>1
  <2>2. \A k \in 1..n : Cleaned(terms[k]) \in Readable
    BY <1>1, CleanedWorth
  <2> HIDE DEF n
  <2> QED  BY <1>1, <2>1, <2>2
<1>3. PICK f : Runs(f, terms)
  BY RunsExist
<1>4. /\ f \in [0..n -> FlagFree] /\ f[0] = one
      /\ \A k \in 1..n : f[k] = UnitTimes(f[k - 1], Worth(terms[k]))
  BY <1>3 DEF Runs
<1> HIDE DEF n, new, ups, downs
<1>5. /\ \A k \in 0..n : sum(k) \in Int /\ -sum(k) \in Int
      /\ sum(0) = 0
  <2>1. \A k \in 0..n : CountTo(ups, k) \in Nat /\ CountTo(downs, k) \in Nat
    <3> SUFFICES ASSUME NEW k \in 0..n
                 PROVE  CountTo(ups, k) \in Nat /\ CountTo(downs, k) \in Nat
      OBVIOUS
    <3>1. k \in Nat
      BY <1>1
    <3> QED  BY <3>1, CountToLaws
  <2>2. CountTo(ups, 0) = 0 /\ CountTo(downs, 0) = 0
    BY CountToLaws, 0 \in Nat
  <2> QED  BY <2>1, <2>2
<1>6. ASSUME NEW k \in 1..n
      PROVE  -sum(k - 1) = -sum(k) + 9 * Milliard(terms[k])
  <2>1. k \in Nat /\ k # 0 /\ k - 1 \in Nat
    BY <1>1
  <2>2. /\ CountTo(ups, k) = CountTo(ups, k - 1) + (IF k \in ups THEN 1 ELSE 0)
        /\ CountTo(downs, k) = CountTo(downs, k - 1) + (IF k \in downs THEN 1 ELSE 0)
        /\ CountTo(ups, k - 1) \in Nat /\ CountTo(downs, k - 1) \in Nat
    BY <2>1, CountToLaws
  <2>3. /\ k \in ups <=> IsMm3(terms[k]) /\ ~terms[k].divides
        /\ k \in downs <=> IsMm3(terms[k]) /\ terms[k].divides
    <3>1. k \in DOMAIN terms /\ terms[k].divides \in BOOLEAN
      BY <1>1 DEF Readable, TermType
    <3> QED  BY <3>1 DEF Mm3s, ups, downs
  <2> DEFINE a == IF k \in ups THEN 1 ELSE 0
             b == IF k \in downs THEN 1 ELSE 0
  <2>4. a \in Int /\ b \in Int /\ Milliard(terms[k]) = a - b
    <3>1. CASE ~IsMm3(terms[k])
      BY <2>3, <3>1 DEF Milliard
    <3>2. CASE IsMm3(terms[k]) /\ terms[k].divides
      BY <2>3, <3>2 DEF Milliard
    <3>3. CASE IsMm3(terms[k]) /\ ~terms[k].divides
      BY <2>3, <3>3 DEF Milliard
    <3> QED  BY <3>1, <3>2, <3>3
  <2>5. /\ CountTo(ups, k) = CountTo(ups, k - 1) + a
        /\ CountTo(downs, k) = CountTo(downs, k - 1) + b
    BY <2>2
  <2>6. \A x, y, i, j \in Int : -(9 * (x - y)) = -(9 * ((x + i) - (y + j))) + 9 * (i - j)
    OBVIOUS
  <2> HIDE DEF a, b
  <2> DEFINE x == CountTo(ups, k - 1)
             y == CountTo(downs, k - 1)
  <2>7. /\ sum(k - 1) = 9 * (x - y) /\ sum(k) = 9 * ((x + a) - (y + b))
        /\ x \in Int /\ y \in Int
    BY <2>2, <2>5
  <2> HIDE DEF x, y, sum
  <2> QED  BY <2>4, <2>6, <2>7
<1> DEFINE h == [k \in 0..n |-> UnitTimes(Ten(-sum(k)), f[k])]
<1>7. h \in [0..n -> FlagFree] /\ h[0] = one
  <2>1. \A k \in 0..n : Ten(-sum(k)) \in FlagFree
    BY <1>5, TenLaws
  <2>2. \A k \in 0..n : UnitTimes(Ten(-sum(k)), f[k]) \in FlagFree
    BY <1>4, <2>1, UnitTyped
  <2>3. 0 \in 0..n /\ -sum(0) = 0
    BY <1>1, <1>5
  <2>4. UnitTimes(Ten(0), one) = one
    BY TenLaws, UnitTyped, UnitLaws
  <2> HIDE DEF sum
  <2> QED  BY <2>2, <2>3, <2>4, <1>4
<1>8. ASSUME NEW k \in 1..n PROVE h[k] = UnitTimes(h[k - 1], Worth(new[k]))
  <2> DEFINE p == -sum(k)
             q == 9 * Milliard(terms[k])
             w == Worth(new[k])
             g == f[k - 1]
  <2>1. k \in 0..n /\ k - 1 \in 0..n
    BY <1>1
  <2>2. p \in Int
    BY <1>5, <2>1
  <2>3. q \in Int /\ -sum(k - 1) = p + q
    <3>1. Milliard(terms[k]) \in Int
      BY <1>1, CleanedWorth
    <3> HIDE DEF sum
    <3> QED  BY <3>1, <1>6
  <2>4. g \in FlagFree /\ w \in FlagFree
    BY <2>1, <1>2, <1>4, WorthTyped
  <2>5. f[k] = UnitTimes(g, UnitTimes(Ten(q), w))
    <3>1. f[k] = UnitTimes(g, Worth(terms[k]))
      BY <1>4
    <3>2. Worth(terms[k]) = UnitTimes(Ten(q), Worth(Cleaned(terms[k])))
      BY <1>1, CleanedWorth
    <3> QED  BY <3>1, <3>2, <1>2
  <2>6. h[k] = UnitTimes(Ten(p), f[k]) /\ h[k - 1] = UnitTimes(Ten(-sum(k - 1)), g)
    BY <2>1
  <2> HIDE DEF h, p, q, w, g, sum
  <2>7. Ten(p) \in FlagFree /\ Ten(q) \in FlagFree /\ UnitTimes(Ten(p), Ten(q)) = Ten(p + q)
    BY <2>2, <2>3, TenLaws
  <2>8. UnitTimes(Ten(p), UnitTimes(g, UnitTimes(Ten(q), w)))
          = UnitTimes(UnitTimes(Ten(p), Ten(q)), UnitTimes(g, w))
    <3>1. UnitTimes(g, UnitTimes(Ten(q), w)) = UnitTimes(UnitTimes(g, Ten(q)), w)
      BY <2>4, <2>7, UnitLaws
    <3>2. UnitTimes(g, Ten(q)) = UnitTimes(Ten(q), g)
      BY <2>4, <2>7, UnitLaws
    <3>3. UnitTimes(UnitTimes(Ten(q), g), w) = UnitTimes(Ten(q), UnitTimes(g, w))
      BY <2>4, <2>7, UnitLaws
    <3>4. UnitTimes(g, w) \in FlagFree
      BY <2>4, UnitTyped
    <3>5. UnitTimes(Ten(p), UnitTimes(Ten(q), UnitTimes(g, w)))
            = UnitTimes(UnitTimes(Ten(p), Ten(q)), UnitTimes(g, w))
      BY <3>4, <2>7, UnitLaws
    <3> QED  BY <3>1, <3>2, <3>3, <3>5
  <2>9. UnitTimes(UnitTimes(Ten(p + q), g), w) = UnitTimes(Ten(p + q), UnitTimes(g, w))
    <3>1. Ten(p + q) \in FlagFree
      BY <2>2, <2>3, TenLaws
    <3> QED  BY <3>1, <2>4, UnitLaws
  <2> QED  BY <2>3, <2>5, <2>6, <2>7, <2>8, <2>9 DEF w
<1> HIDE DEF h, sum
<1>9. Runs(h, new)
  BY <1>2, <1>7, <1>8 DEF Runs
<1>10. Product(new) = h[n] /\ Product(terms) = f[n]
  BY <1>2, <1>3, <1>9, ProductOfRuns DEF n
<1>11. /\ Cardinality(ups) = CountTo(ups, n) /\ Cardinality(downs) = CountTo(downs, n)
       /\ CountTo(ups, n) \in Nat /\ CountTo(downs, n) \in Nat
  <2>1. (1..n) \cap ups = ups /\ (1..n) \cap downs = downs
    BY <1>1 DEF Mm3s, ups, downs
  <2>2. CountTo(ups, n) \in Nat /\ CountTo(downs, n) \in Nat
    BY <1>1, CountToLaws
  <2> QED  BY <2>1, <2>2 DEF CountTo
<1>12. Product(terms) = UnitTimes(Ten(sum(n)), Product(new))
  <2>1. n \in 0..n /\ sum(n) \in Int /\ -sum(n) \in Int /\ sum(n) + (-sum(n)) = 0
    BY <1>1, <1>5
  <2>2. h[n] = UnitTimes(Ten(-sum(n)), f[n]) /\ f[n] \in FlagFree
    BY <2>1, <1>4 DEF h
  <2>3. Ten(sum(n)) \in FlagFree /\ Ten(-sum(n)) \in FlagFree
        /\ UnitTimes(Ten(sum(n)), Ten(-sum(n))) = one
    BY <2>1, TenLaws
  <2>4. UnitTimes(Ten(sum(n)), h[n]) = UnitTimes(one, f[n])
    BY <2>2, <2>3, UnitLaws
  <2> QED  BY <2>2, <2>4, <1>10, UnitLaws
<1> QED  BY <1>2, <1>11, <1>12 DEF new, sum, ups, downs

(***************************************************************************)
(* The invariant.  The number, the terms before, the unit that is left and *)
(* the terms after stand for the input; a number that is INF, NaN or 0 is  *)
(* the first thing that is written.                                        *)
(***************************************************************************)
Writable == [mult : AnyMult, base : FlagFreeBase]

Left ==
  \/ un \in FlagFree /\ Whole(num, before, un, after) = input
  \/ /\ ~IsNormal(un.mult) /\ un = input
     /\ num = One /\ before = <<>> /\ after = <<>>

TextTyped ==
  num \in AnyMult /\ before \in Seq(Readable) /\ after \in Seq(Readable)

IInv ==
  /\ TextTyped
  /\ phase \in {"choosing", "writing", "cleaning", "done"}
  /\ phase \in {"choosing", "writing"} => Left
  /\ phase = "writing" => rule = Rule(un)
  /\ phase \in {"cleaning", "done"} => Scaled(num, Product(before)) = input
  /\ phase = "done" => \A i \in DOMAIN before : ~Rewritten(before[i])

\* A unit that is left for a rule other than "special" is an ordinary one.
LEMMA LeftFlagFree ==
  ASSUME IInv, NEW r, Chosen(r), r # "special"
  PROVE  /\ un \in FlagFree /\ Whole(num, before, un, after) = input
         /\ Applies(r, un) /\ TextTyped /\ (r = "probe" => ~empty(un))
<1>1. phase = "writing" /\ rule = r
  BY DEF Chosen
<1>2. Left /\ r = Rule(un) /\ TextTyped
  BY <1>1 DEF IInv
<1>3. IsNormal(un.mult)
  BY <1>2, RuleApplies
<1>4. Applies(r, un) /\ (r = "probe" => ~empty(un))
  BY <1>2, RuleApplies
<1> QED  BY <1>2, <1>3, <1>4 DEF Left

\* Writing all of it.
LEMMA FinishKeeps ==
  ASSUME TextTyped, Whole(num, before, un, after) = input,
         NEW text, Writes(text, un), Finish(text)
  PROVE  IInv'
<1>1. /\ num' = MultTimes(num, text.number) /\ before' = before \o text.terms \o after
      /\ after' = <<>> /\ phase' = "cleaning" /\ input' = input
  BY DEF Finish
<1>2. /\ num \in AnyMult /\ before \in Seq(Readable) /\ after \in Seq(Readable)
  BY DEF TextTyped
<1>3. text.number \in NormalMult
  BY WritesShape
<1>4. num' \in AnyMult
  BY <1>1, <1>2, <1>3, AnyMultLaws
<1>5. before' \in Seq(Readable) /\ Scaled(num', Product(before')) = input'
  BY <1>1, <1>2, WholeFinished
<1>6. after' \in Seq(Readable)
  BY <1>1, ProductOfNone
<1>7. Scaled(num, Product(before))' = Scaled(num', Product(before'))
  BY DEF Scaled, Product
<1> QED  BY <1>1, <1>4, <1>5, <1>6 DEF IInv, TextTyped

\* Writing a part of it.
LEMMA AroundKeeps ==
  ASSUME TextTyped, Whole(num, before, un, after) = input,
         NEW m \in NormalMult, NEW p \in Seq(Readable), NEW q \in Seq(Readable),
         NEW rest \in FlagFree,
         un = UnitTimes(Factor(m), UnitTimes(Product(p), UnitTimes(rest, Product(q)))),
         WriteAround(m, p, rest, q)
  PROVE  IInv'
<1>1. /\ num' = MultTimes(num, m) /\ before' = before \o p /\ after' = q \o after
      /\ un' = rest /\ phase' = "choosing" /\ input' = input
  BY DEF WriteAround
<1>2. /\ num \in AnyMult /\ before \in Seq(Readable) /\ after \in Seq(Readable)
  BY DEF TextTyped
<1>3. num' \in AnyMult
  BY <1>1, <1>2, AnyMultLaws
<1>4. /\ before' \in Seq(Readable) /\ after' \in Seq(Readable)
      /\ Whole(num', before', un', after') = input'
  BY <1>1, <1>2, WholeAround
<1> QED  BY <1>1, <1>3, <1>4 DEF IInv, TextTyped, Left

\* A text of one term.
LEMMA TermWrites ==
  ASSUME NEW term \in Readable
  PROVE  Writes(Bare(<<term>>), Worth(term))
BY ProductOfOne, TextWrites, MultTyped

\* The actions, one by one: a number first ...
LEMMA NumberFirstKeeps ==
  ASSUME IInv, input \in Writable, NumberFirst
  PROVE  IInv'
<1>1. phase = "writing" /\ WriteAround(un.mult, <<>>, Plain(un.base), <<>>)
      /\ Left /\ TextTyped
  BY DEF NumberFirst, Chosen, IInv
<1>2. <<>> \in Seq(Readable) /\ Product(<<>>) = one /\ one \in FlagFree
  BY ProductOfNone, UnitTyped
<1>3. CASE un \in FlagFree /\ Whole(num, before, un, after) = input
  <2>1. un.mult \in NormalMult /\ Plain(un.base) \in FlagFree
    BY <1>3, UnitShape, UnitTyped
  <2>2. un = UnitTimes(Factor(un.mult), Plain(un.base))
    BY <1>3, FactorLaws
  <2>3. UnitTimes(one, UnitTimes(Plain(un.base), one)) = Plain(un.base)
    BY <1>2, <2>1, UnitLaws, GroupLaws
  <2> QED  BY <1>1, <1>2, <1>3, <2>1, <2>2, <2>3, AroundKeeps
<1>4. CASE /\ ~IsNormal(un.mult) /\ un = input
           /\ num = One /\ before = <<>> /\ after = <<>>
  <2>1. un.mult \in AnyMult /\ un.base \in FlagFreeBase /\ un = precise_unit(un.mult, un.base)
    BY <1>4 DEF Writable, precise_unit
  <2>2. /\ num' = MultTimes(num, un.mult) /\ before' = before \o <<>>
        /\ after' = <<>> \o after /\ un' = Plain(un.base) /\ phase' = "choosing"
        /\ input' = input
    BY <1>1 DEF WriteAround
  <2>3. num' = un.mult
    BY <1>4, <2>1, <2>2, MultTyped, AnyMultLaws
  <2>4. before' = <<>> /\ after' = <<>>
    BY <1>4, <2>2
  <2>5. un' \in FlagFree /\ un'.mult = One /\ un'.base = un.base
    BY <2>1, <2>2, UnitTyped, UnitShape DEF Plain
  <2>6. Whole(num', <<>>, un', <<>>) = Scaled(num', un')
    BY <1>2, <2>5, UnitLaws, GroupLaws DEF Whole
  <2>7. Scaled(num', un') = un
    BY <2>1, <2>3, <2>5, MultTyped, AnyMultLaws DEF Scaled
  <2> QED  BY <1>2, <1>4, <2>1, <2>2, <2>3, <2>4, <2>5, <2>6, <2>7 DEF IInv, TextTyped, Left
<1> QED  BY <1>1, <1>3, <1>4 DEF Left

\* ... a name ...
LEMMA NameKeeps ==
  ASSUME TablesReadBack, IInv, Name \/ InverseName
  PROVE  IInv'
<1>1. CASE Name
  <2>1. Chosen("name") /\ Finish(Bare(<<NameOf(un)>>))
    BY <1>1 DEF Name
  <2>2. /\ un \in FlagFree /\ Whole(num, before, un, after) = input
        /\ Applies("name", un) /\ TextTyped
    BY <2>1, LeftFlagFree
  <2>3. HasName(un)
    BY <2>2 DEF Applies
  <2>4. Writes(Bare(<<NameOf(un)>>), un)
    BY <2>2, <2>3, NamedWrites, TermWrites
  <2> QED  BY <2>1, <2>2, <2>4, FinishKeeps
<1>2. CASE InverseName
  <2> DEFINE term == Dividing(NameOf(UnitInv(un)))
  <2>1. Chosen("inverse name") /\ Finish(Bare(<<term>>))
    BY <1>2 DEF InverseName
  <2>2. /\ un \in FlagFree /\ Whole(num, before, un, after) = input
        /\ Applies("inverse name", un) /\ TextTyped
    BY <2>1, LeftFlagFree
  <2>3. HasName(UnitInv(un))
    BY <2>2 DEF Applies
  <2>4. term \in Readable /\ Worth(term) = un
    BY <2>2, <2>3, NamedWrites
  <2> HIDE DEF term
  <2>5. Writes(Bare(<<term>>), un)
    BY <2>4, TermWrites
  <2> QED  BY <2>1, <2>2, <2>5, FinishKeeps
<1> QED  BY <1>1, <1>2

\* ... a number ...
LEMMA NumberKeeps ==
  ASSUME TablesReadBack, IInv, Number
  PROVE  IInv'
<1> DEFINE base == Plain(un.base)
           terms == IF HasName(base) THEN <<NameOf(base)>> ELSE addUnitFlagStrings(un, <<>>)
<1>1. Chosen("number") /\ Finish(Text(un.mult, terms))
  BY DEF Number
<1>2. /\ un \in FlagFree /\ Whole(num, before, un, after) = input
      /\ Applies("number", un) /\ TextTyped
  BY <1>1, LeftFlagFree
<1>3. unit_type_count(un) = 0
  BY <1>2 DEF Applies, empty
<1>4. un.mult \in NormalMult /\ un.base \in FlagFreeBase /\ base = one /\ un.base.flags = {}
  BY <1>2, <1>3, NoBaseUnits, UnitShape DEF one, FlagFreeBase
<1>5. un = UnitTimes(Factor(un.mult), one) /\ one \in FlagFree
  BY <1>2, <1>4, FactorLaws, UnitTyped
<1>6. terms \in Seq(Readable) /\ Product(terms) = one
  <2>1. CASE HasName(base)
    <3>1. NameOf(base) \in Readable /\ Worth(NameOf(base)) = one
      BY <1>4, <1>5, <2>1, NamedWrites
    <3> QED  BY <2>1, <3>1, ProductOfOne
  <2>2. CASE ~HasName(base)
    <3>1. addUnitFlagStrings(un, <<>>) = <<>>
      BY <1>4, ProductOfNone, NoFlagStrings
    <3> QED  BY <2>2, <3>1, ProductOfNone
  <2> QED  BY <2>1, <2>2
<1> HIDE DEF terms
<1>7. Writes(Text(un.mult, terms), un)
  BY <1>4, <1>5, <1>6, TextWrites
<1> QED  BY <1>1, <1>2, <1>7, FinishKeeps

\* ... a known square or cube ...
LEMMA NamedPowerKeeps ==
  ASSUME TablesReadBack, IInv, Square \/ Cube
  PROVE  IInv'
<1>1. PICK n \in 2..3, r \in {"square", "cube"} :
        /\ Chosen(r) /\ Finish(Bare(<<NamedPower(un, n)>>))
        /\ Applies(r, un) => IsNamedPower(un, n)
  BY DEF Square, Cube, Applies
<1>2. /\ un \in FlagFree /\ Whole(num, before, un, after) = input
      /\ Applies(r, un) /\ TextTyped
  BY <1>1, LeftFlagFree
<1>3. Writes(Bare(<<NamedPower(un, n)>>), un)
  BY <1>1, <1>2, NamedPowerWrites, TermWrites
<1> QED  BY <1>1, <1>2, <1>3, FinishKeeps

\* ... an equation unit, which has flags ...
LEMMA EquationKeeps ==
  ASSUME IInv, Equation
  PROVE  IInv'
<1>1. Chosen("equation")
  BY DEF Equation
<1>2. un \in FlagFree /\ Applies("equation", un)
  BY <1>1, LeftFlagFree
<1>3. un.base.flags = {}
  BY <1>2, UnitShape DEF FlagFreeBase
<1> QED  BY <1>2, <1>3 DEF Applies

\* ... a custom unit, whole or with a rest ...
LEMMA CustomKeeps ==
  ASSUME TablesReadBack, IInv, Custom \/ CustomCount
  PROVE  IInv'
<1>1. PICK r \in {"custom", "custom count"} :
        Chosen(r) /\ \E cx : /\ WriteCustom(cx)
                             /\ \/ \E k \in {-1, 1} : cx = Coded("CXUN", custom_unit_number(un.base), k)
                                \/ \E k \in {-1, 1} : cx = Coded("CXCUN", custom_count_unit_number(un.base), k)
  <2>1. CASE Custom
    BY <2>1 DEF Custom
  <2>2. CASE CustomCount
    BY <2>2 DEF CustomCount
  <2> QED  BY <2>1, <2>2
<1>2. PICK cx : /\ WriteCustom(cx)
                /\ \/ \E k \in {-1, 1} : cx = Coded("CXUN", custom_unit_number(un.base), k)
                   \/ \E k \in {-1, 1} : cx = Coded("CXCUN", custom_count_unit_number(un.base), k)
  BY <1>1
<1> DEFINE urem == clear_flags(UnitDivides(un, ReadTerm(cx)))
<1>3. un \in FlagFree /\ Whole(num, before, un, after) = input /\ TextTyped
  BY <1>1, LeftFlagFree
<1>4. cx \in Readable /\ urem \in FlagFree /\ UnitTimes(urem, Worth(cx)) = un
  BY <1>2, <1>3, CustomTermReads
<1>5. \/ urem = one /\ Finish(Bare(<<cx>>))
      \/ urem # one /\ WriteAround(One, <<>>, urem, <<cx>>)
  BY <1>2 DEF WriteCustom
<1> HIDE DEF urem
<1>6. Worth(cx) \in FlagFree
  BY <1>4, WorthTyped
<1>7. CASE urem = one /\ Finish(Bare(<<cx>>))
  <2>1. Worth(cx) = un
    BY <1>4, <1>6, <1>7, UnitLaws
  <2>2. Writes(Bare(<<cx>>), un)
    BY <1>4, <2>1, TermWrites
  <2> QED  BY <1>3, <1>7, <2>2, FinishKeeps
<1>8. CASE urem # one /\ WriteAround(One, <<>>, urem, <<cx>>)
  <2>1. /\ <<>> \in Seq(Readable) /\ Product(<<>>) = one /\ One \in NormalMult
        /\ <<cx>> \in Seq(Readable) /\ Product(<<cx>>) = Worth(cx) /\ Factor(One) = one
    BY <1>4, ProductOfNone, ProductOfOne, MultTyped, FactorLaws
  <2>2. un = UnitTimes(one, UnitTimes(one, UnitTimes(urem, Worth(cx))))
    BY <1>3, <1>4, UnitLaws
  <2> QED  BY <1>3, <1>4, <1>8, <2>1, <2>2, AroundKeeps
<1> QED  BY <1>5, <1>7, <1>8

\* ... the base units ...
LEMMA BaseUnitsKeeps ==
  ASSUME TablesReadBack, IInv, BaseUnits
  PROVE  IInv'
<1> DEFINE text == generateUnitSequence(un.mult, generateRawUnitString(un))
<1>1. Chosen("base units") /\ Finish(text)
  BY DEF BaseUnits
<1>2. /\ un \in FlagFree /\ Whole(num, before, un, after) = input
      /\ Applies("base units", un) /\ TextTyped
  BY <1>1, LeftFlagFree
<1>3. unit_type_count(un) # 0
  BY <1>2 DEF Applies
<1>4. Writes(text, un)
  BY <1>2, <1>3, BaseUnitsWrite
<1> HIDE DEF text
<1> QED  BY <1>1, <1>2, <1>4, FinishKeeps

\* ... a unit that takes a prefix, with a rest ...
LEMMA SITestKeeps ==
  ASSUME TablesReadBack, IInv, SITest
  PROVE  IInv'
<1>1. Chosen("SI test")
  BY DEF SITest
<1>2. un \in FlagFree /\ Whole(num, before, un, after) = input /\ TextTyped
  BY <1>1, LeftFlagFree
<1>3. PICK part \in AllSIParts(un) :
        \/ part.rest = one /\ Finish(Bare(part.before \o part.after))
        \/ part.rest # one /\ WriteAround(One, part.before, part.rest, part.after)
  BY DEF SITest
<1> DEFINE p == part.before
           q == part.after
           rest == part.rest
<1>4. /\ p \in Seq(Readable) /\ q \in Seq(Readable) /\ rest \in FlagFree
      /\ UnitTimes(Product(p), UnitTimes(rest, Product(q))) = un
  BY <1>2, <1>3, SIPartFits DEF Fits
<1> HIDE DEF p, q, rest
<1>5. CASE rest = one /\ Finish(Bare(p \o q))
  <2>1. p \o q \in Seq(Readable) /\ Product(p \o q) = un
    BY <1>4, <1>5, ProductOfConcat, ProductTyped, UnitLaws
  <2>2. Writes(Bare(p \o q), un)
    BY <2>1, TextWrites, MultTyped
  <2> QED  BY <1>2, <1>5, <2>2, FinishKeeps
<1>6. CASE rest # one /\ WriteAround(One, p, rest, q)
  <2>1. One \in NormalMult /\ Factor(One) = one
    BY MultTyped, FactorLaws
  <2>2. un = UnitTimes(one, UnitTimes(Product(p), UnitTimes(rest, Product(q))))
    BY <1>2, <1>4, UnitLaws
  <2> QED  BY <1>2, <1>4, <1>6, <2>1, <2>2, AroundKeeps
<1> QED  BY <1>3, <1>5, <1>6 DEF p, q, rest

\* ... a number and a name ...
LEMMA PureBaseKeeps ==
  ASSUME TablesReadBack, IInv, PureBase \/ InversePureBase
  PROVE  IInv'
<1>1. CASE PureBase
  <2> DEFINE base == Plain(un.base)
  <2>1. Chosen("pure base") /\ Finish(generateUnitSequence(un.mult, <<NameOf(base)>>))
    BY <1>1 DEF PureBase
  <2>2. /\ un \in FlagFree /\ Whole(num, before, un, after) = input
        /\ Applies("pure base", un) /\ TextTyped
    BY <2>1, LeftFlagFree
  <2>3. /\ un.mult \in NormalMult /\ base \in FlagFree /\ HasName(base)
        /\ un = UnitTimes(Factor(un.mult), base)
    BY <2>2, UnitShape, UnitTyped, FactorLaws DEF Applies
  <2> HIDE DEF base
  <2>4. Names(NameOf(base), base)
    BY <2>3, NameOfNames
  <2>5. Writes(generateUnitSequence(un.mult, <<NameOf(base)>>), un)
    BY <2>3, <2>4, NameWrites
  <2> QED  BY <2>1, <2>2, <2>5, FinishKeeps
<1>2. CASE InversePureBase
  <2> DEFINE base == Plain(Inv(un.base))
             m == MultInv(un.mult)
             text == generateUnitSequence(m, <<NameOf(base)>>)
  <2>1. Chosen("inverse pure base") /\ Finish(Inverted(text))
    BY <1>2 DEF InversePureBase
  <2>2. /\ un \in FlagFree /\ Whole(num, before, un, after) = input
        /\ Applies("inverse pure base", un) /\ TextTyped
    BY <2>1, LeftFlagFree
  <2>3. un.mult \in NormalMult /\ un.base \in FlagFreeBase
    BY <2>2, UnitShape
  <2>4. m \in NormalMult /\ Inv(un.base) \in FlagFreeBase
    BY <2>3, MultTyped, BaseTyped
  <2>5. base \in FlagFree /\ HasName(base)
    BY <2>2, <2>4, UnitTyped DEF Applies
  <2>6. UnitInv(UnitTimes(Factor(m), base)) = un
    <3>1. UnitInv(Factor(un.mult)) = Factor(m) /\ UnitInv(Plain(un.base)) = base
      BY <2>3, FactorLaws
    <3>2. un = UnitTimes(Factor(un.mult), Plain(un.base))
      BY <2>2, FactorLaws
    <3>3. Factor(un.mult) \in FlagFree /\ Plain(un.base) \in FlagFree
      BY <2>3, UnitTyped
    <3>4. UnitInv(un) = UnitTimes(Factor(m), base)
      BY <3>1, <3>2, <3>3, GroupLaws
    <3> QED  BY <2>2, <3>4, GroupLaws
  <2> HIDE DEF base, m
  <2>7. Names(NameOf(base), base)
    BY <2>5, NameOfNames
  <2>8. Writes(text, UnitTimes(Factor(m), base))
    BY <2>4, <2>7, NameWrites
  <2> HIDE DEF text
  <2>9. Writes(Inverted(text), un)
    BY <2>6, <2>8, InvertedWrites
  <2> QED  BY <2>1, <2>2, <2>9, FinishKeeps
<1> QED  BY <1>1, <1>2

\* ... a probe, or what there is when none succeeds ...
LEMMA ProbeOrReduceKeeps ==
  ASSUME TablesReadBack, IInv, ProbeOrReduce
  PROVE  IInv'
<1> DEFINE texts == <<Probed(un), {Reduced(un)}>>
<1>1. Chosen("probe")
  BY DEF ProbeOrReduce
<1>2. /\ un \in FlagFree /\ Whole(num, before, un, after) = input
      /\ ~empty(un) /\ TextTyped
  BY <1>1, LeftFlagFree
<1>3. PICK text \in FirstOf(texts) : Finish(text)
  BY DEF ProbeOrReduce
<1>4. DOMAIN texts = 1..2 /\ texts[1] = Probed(un) /\ texts[2] = {Reduced(un)}
  OBVIOUS
<1>5. unit_type_count(un) # 0
  BY <1>2, UnitShape DEF empty, FlagFreeBase
<1> HIDE DEF texts
<1>6. PICK i \in 1..2 : text \in texts[i]
  BY <1>3, <1>4, 2 \in Nat, FirstOfMember
<1>7. Writes(text, un)
  <2>1. CASE i = 1
    BY <1>2, <1>4, <1>6, <2>1, ProbedWrites
  <2>2. CASE i = 2
    <3>1. text = Reduced(un)
      BY <1>4, <1>6, <2>2
    <3> QED  BY <1>2, <1>5, <3>1, ReducedWrites
  <2> QED  BY <1>6, <2>1, <2>2
<1> QED  BY <1>2, <1>3, <1>7, FinishKeeps

\* ... and the rewriting of the finished text.
LEMMA CleanKeeps ==
  ASSUME TablesReadBack, IInv, clean_unit_string
  PROVE  IInv'
<1> DEFINE new == [i \in DOMAIN before |-> Cleaned(before[i])]
           up == Cardinality(Mm3s(before, FALSE))
           down == Cardinality(Mm3s(before, TRUE))
           m == number(9 * (up - down), 0)
<1>1. /\ num' = MultTimes(num, m) /\ before' = new /\ phase' = "done"
      /\ input' = input /\ after' = after
  BY DEF clean_unit_string, Mm3s, Cleaned
<1>2. /\ num \in AnyMult /\ before \in Seq(Readable) /\ after \in Seq(Readable)
      /\ Scaled(num, Product(before)) = input
  BY DEF IInv, TextTyped, clean_unit_string
<1>3. /\ new \in Seq(Readable) /\ up \in Nat /\ down \in Nat
      /\ Product(before) = UnitTimes(Factor(m), Product(new))
  BY <1>2, CleanedProduct DEF Ten
<1>7. \A i \in DOMAIN new : ~Rewritten(new[i])
  BY <1>2, SeqShape, CleanedOnce
<1> HIDE DEF new, up, down
<1>4. 9 * (up - down) \in Int
  BY <1>3
<1>5. m \in NormalMult
  BY <1>4, PrefixTyped
<1> HIDE DEF m
<1>6. num' \in AnyMult /\ Scaled(num', Product(new)) = input
  BY <1>1, <1>2, <1>3, <1>5, ProductTyped, ScaledLaws
<1> QED  BY <1>1, <1>2, <1>3, <1>6, <1>7 DEF IInv, TextTyped

\* The invariant holds at first, for any writable input.
LEMMA InitInv ==
  ASSUME Init, input \in Writable
  PROVE  IInv
<1>1. un = input /\ num = One /\ before = <<>> /\ after = <<>> /\ phase = "choosing"
  BY DEF Init
<1>2. One \in NormalMult /\ <<>> \in Seq(Readable) /\ Product(<<>>) = one /\ one \in FlagFree
  BY MultTyped, ProductOfNone, UnitTyped
<1>3. TextTyped
  BY <1>1, <1>2 DEF TextTyped, AnyMult
<1>4. input.mult \in AnyMult /\ input.base \in FlagFreeBase
      /\ input = precise_unit(input.mult, input.base)
  BY DEF Writable, precise_unit
<1>5. Left
  <2>1. CASE input.mult \in NormalMult
    <3>1. input \in FlagFree
      BY <1>4, <2>1, UnitShape
    <3>2. UnitTimes(one, UnitTimes(input, one)) = input
      BY <1>2, <3>1, UnitLaws, GroupLaws
    <3>3. Whole(One, <<>>, input, <<>>) = input
      BY <1>2, <3>1, <3>2, MultTyped, ScaledLaws DEF Whole, AnyMult
    <3> QED  BY <1>1, <3>1, <3>3 DEF Left
  <2>2. CASE input.mult \in SpecialMult
    BY <1>1, <2>2, SpecialShape DEF Left
  <2> QED  BY <1>4, <2>1, <2>2 DEF AnyMult
<1> QED  BY <1>1, <1>3, <1>5 DEF IInv

\* No step breaks it.
LEMMA NextInv ==
  ASSUME TablesReadBack, input \in Writable => IInv, [Next]_vars
  PROVE  (input \in Writable => IInv)'
<1>1. input' = input
  BY DEF Next, vars, to_string_internal, Choose, NumberFirst, Name, InverseName, Number,
         Square, Cube, Equation, Custom, CustomCount, WriteCustom, BaseUnits, SITest, PureBase,
         InversePureBase, ProbeOrReduce, clean_unit_string, Done, Finish, WriteAround
<1> SUFFICES ASSUME input \in Writable PROVE IInv'
  BY <1>1
<1>2. IInv
  OBVIOUS
<1>3. CASE Choose
  <2>1. /\ phase = "choosing" /\ phase' = "writing" /\ rule' = Rule(un)
        /\ input' = input /\ un' = un /\ num' = num /\ before' = before /\ after' = after
    BY <1>3 DEF Choose
  <2>2. TextTyped /\ Left
    BY <1>2, <2>1 DEF IInv
  <2>3. TextTyped' /\ Left'
    BY <2>1, <2>2 DEF TextTyped, Left
  <2>4. rule' = Rule(un')
    BY <2>1
  <2> QED  BY <2>1, <2>3, <2>4 DEF IInv
<1>4. CASE UNCHANGED vars
  <2>1. /\ phase' = phase /\ rule' = rule /\ input' = input /\ un' = un
        /\ num' = num /\ before' = before /\ after' = after
    BY <1>4 DEF vars
  <2>2. TextTyped => TextTyped'
    BY <2>1 DEF TextTyped
  <2>3. Left => Left'
    BY <2>1 DEF Left
  <2> QED  BY <1>2, <2>1, <2>2, <2>3 DEF IInv
<1>5. CASE NumberFirst
  BY <1>2, <1>5, NumberFirstKeeps
<1>6. CASE Name \/ InverseName
  BY <1>2, <1>6, NameKeeps
<1>7. CASE Number
  BY <1>2, <1>7, NumberKeeps
<1>8. CASE Square \/ Cube
  BY <1>2, <1>8, NamedPowerKeeps
<1>9. CASE Equation
  BY <1>2, <1>9, EquationKeeps
<1>10. CASE Custom \/ CustomCount
  BY <1>2, <1>10, CustomKeeps
<1>11. CASE BaseUnits
  BY <1>2, <1>11, BaseUnitsKeeps
<1>12. CASE SITest
  BY <1>2, <1>12, SITestKeeps
<1>13. CASE PureBase \/ InversePureBase
  BY <1>2, <1>13, PureBaseKeeps
<1>14. CASE ProbeOrReduce
  BY <1>2, <1>14, ProbeOrReduceKeeps
<1>15. CASE clean_unit_string
  BY <1>2, <1>15, CleanKeeps
<1> QED  BY <1>3, <1>4, <1>5, <1>6, <1>7, <1>8, <1>9, <1>10, <1>11, <1>12, <1>13, <1>14, <1>15
         DEF Next, to_string_internal, Done

(***************************************************************************)
(* The theorems.                                                           *)
(***************************************************************************)
LEMMA IInvTyped ==
  ASSUME IInv
  PROVE  TypeOK
<1>1. num \in [class : {"normal", "INF", "NaN", "0"}, neg : BOOLEAN, ten : Int, sixty : Int]
  <2>1. num \in NormalMult \/ num \in SpecialMult
    BY DEF IInv, TextTyped, AnyMult
  <2> QED  BY <2>1 DEF NormalMult, SpecialMult
<1>2. ASSUME NEW i \in DOMAIN before
      PROVE  /\ before[i].prefix \in SIPrefix \cup {0} /\ before[i].power # 0
             /\ Known(before[i]).base \in UnitDataType
  <2>1. before[i] \in Readable
    BY <1>2, SeqShape DEF IInv, TextTyped
  <2>2. before[i] \in TermType /\ Known(before[i]).base \in FlagFreeBase
    BY <2>1, UnitShape DEF Readable
  <2> QED  BY <2>2 DEF TermType, FlagFreeBase
<1> QED  BY <1>1, <1>2 DEF TypeOK, IInv

\* No name in the text means something else with its prefix, but for those
\* that the cleaning rewrites.
NoClash == \A i \in DOMAIN before : Clashes(before[i]) => Rewritten(before[i])

\* A finished text of which the invariant holds reads back.
LEMMA IInvReadsBack ==
  ASSUME IInv, NoClash
  PROVE  ReadsBack
<1> SUFFICES ASSUME phase = "done" PROVE Read(Text(num, before)) = input
  BY DEF ReadsBack
<1>1. before \in Seq(Readable) /\ Scaled(num, Product(before)) = input
      /\ \A i \in DOMAIN before : ~Rewritten(before[i])
  BY DEF IInv, TextTyped
<1>2. ReadTerms(before) = Product(before)
  BY <1>1, ReadIsProduct DEF NoClash
<1>3. Product(before) = precise_unit(Product(before).mult, Product(before).base)
  BY <1>1, ProductTyped, UnitShape
<1> DEFINE p == Product(before)
<1>4. Read(Text(num, before)) = [p EXCEPT !.mult = MultTimes(num, @)]
  BY <1>2 DEF Read, Text
<1> HIDE DEF p
<1>5. [p EXCEPT !.mult = MultTimes(num, @)] = precise_unit(MultTimes(num, p.mult), p.base)
  BY <1>3 DEF p, precise_unit
<1> QED  BY <1>1, <1>4, <1>5 DEF Scaled, p

\* For any unit without flags, with any number, what the writer has written
\* is a number and terms with names that the reader knows, in fields that
\* hold them: to_string never leaves a term of power 0 or a prefix that is
\* not one of si_prefixes.
THEOREM TextIsTyped ==
  ASSUME TablesReadBack
  PROVE  Spec => [](input \in Writable => TypeOK)
<1>1. Init => (input \in Writable => IInv)
  BY InitInv
<1>2. (input \in Writable => IInv) /\ [Next]_vars => (input \in Writable => IInv)'
  BY NextInv
<1>3. (input \in Writable => IInv) => (input \in Writable => TypeOK)
  BY IInvTyped
<1> QED  BY <1>1, <1>2, <1>3, PTL DEF Spec

\* docs/user-guide/to_string.rst: the reader converts the text back to the
\* unit.  For any unit without flags, with any number, whichever rules of
\* to_string_internal write it and however often the writer calls itself,
\* the finished text is read as that unit, unless one of its prefixed names
\* has a meaning of its own; that Gs and Mm^3 have one does no harm, because
\* clean_unit_string has rewritten them.
THEOREM TextReadsBack ==
  ASSUME TablesReadBack
  PROVE  Spec => [](input \in Writable /\ NoClash => ReadsBack)
<1>1. Init => (input \in Writable => IInv)
  BY InitInv
<1>2. (input \in Writable => IInv) /\ [Next]_vars => (input \in Writable => IInv)'
  BY NextInv
<1>3. (input \in Writable => IInv) => (input \in Writable /\ NoClash => ReadsBack)
  BY IInvReadsBack
<1> QED  BY <1>1, <1>2, <1>3, PTL DEF Spec

(***************************************************************************)
(* The recursion of to_string ends, for units with flags as well.          *)
(***************************************************************************)
\* What the writer calls itself for is a unit, and the rule is the first one
\* that applies to it.
Descends == un \in AnyUnit /\ (phase = "writing" => rule = Rule(un))

\* The rules that apply before the one that is chosen do not apply.
LEMMA RuleOrder ==
  ASSUME NEW u
  PROVE  /\ Rule(u) \notin {"special", "magnitude"} => IsNormal(u.mult) /\ IsFloat(u.mult)
         /\ Rule(u) \in {"custom", "custom count", "SI test"} => "equation" \notin u.base.flags
         /\ Rule(u) = "SI test" => /\ ~is_custom_unit(u.base) /\ ~is_custom_count_unit(u.base)
                                   /\ ~empty(u) /\ unit_type_count(u) # 1
<1> DEFINE T == {i \in 1..15 : Applies(Rules[i], u)}
           First(i) == Applies(Rules[i], u) /\ \A j \in 1..(i - 1) : ~Applies(Rules[j], u)
           r == CHOOSE i \in 1..15 : First(i)
<1>1. Rule(u) = Rules[r]
  <2>1. DOMAIN Rules = 1..15
    BY DEF Rules
  <2> QED  BY <2>1 DEF Rule
<1>2. Applies("probe", u) /\ Rules[15] = "probe"
  BY DEF Applies, Rules
<1>3. T \subseteq Nat /\ T # {}
  BY <1>2
<1>4. PICK m \in T : \A k \in T : m <= k
  BY <1>3, LeastNumber
<1>5. r \in 1..15 /\ First(r)
  BY <1>4
<1> HIDE DEF r, T
<1>6. /\ Rules[1] = "special" /\ Rules[2] = "magnitude" /\ Rules[3] = "name"
      /\ Rules[4] = "inverse name" /\ Rules[5] = "number" /\ Rules[6] = "square"
      /\ Rules[7] = "cube" /\ Rules[8] = "equation" /\ Rules[9] = "custom"
      /\ Rules[10] = "custom count" /\ Rules[11] = "base units" /\ Rules[12] = "SI test"
      /\ Rules[13] = "pure base" /\ Rules[14] = "inverse pure base" /\ Rules[15] = "probe"
  BY DEF Rules
<1>7. r \in 1..15
  BY <1>5
<1> HIDE DEF First
<1>8. \A j \in 1..15 : j < r => ~Applies(Rules[j], u)
  BY <1>5 DEF First
<1>a. r # 1 /\ r # 2 => ~Applies(Rules[1], u) /\ ~Applies(Rules[2], u)
  BY <1>7, <1>8
<1>b. r # 1 /\ r # 2 /\ r # 3 /\ r # 4 /\ r # 5 /\ r # 6 /\ r # 7 /\ r # 8
        => ~Applies(Rules[8], u)
  BY <1>7, <1>8
<1>c. r = 12 => /\ ~Applies(Rules[5], u) /\ ~Applies(Rules[9], u)
                /\ ~Applies(Rules[10], u) /\ ~Applies(Rules[11], u)
  BY <1>8
<1>d. \A i \in 1..15 : Rules[i] = "SI test" => i = 12
  <2>1. \A i \in 1..15 :
          i = 1 \/ i = 2 \/ i = 3 \/ i = 4 \/ i = 5 \/ i = 6 \/ i = 7 \/ i = 8
          \/ i = 9 \/ i = 10 \/ i = 11 \/ i = 12 \/ i = 13 \/ i = 14 \/ i = 15
    OBVIOUS
  <2> QED  BY <1>6, <2>1
<1>9. Rule(u) \notin {"special", "magnitude"} => IsNormal(u.mult) /\ IsFloat(u.mult)
  <2> SUFFICES ASSUME Rules[r] \notin {"special", "magnitude"}
               PROVE  IsNormal(u.mult) /\ IsFloat(u.mult)
    BY <1>1
  <2>1. r # 1 /\ r # 2
    BY <1>6
  <2> QED  BY <1>6, <1>a, <2>1 DEF Applies
<1>10. Rule(u) \in {"custom", "custom count", "SI test"} => "equation" \notin u.base.flags
  <2> SUFFICES ASSUME Rules[r] \in {"custom", "custom count", "SI test"}
               PROVE  "equation" \notin u.base.flags
    BY <1>1
  <2>1. r # 1 /\ r # 2 /\ r # 3 /\ r # 4 /\ r # 5 /\ r # 6 /\ r # 7 /\ r # 8
    BY <1>6
  <2> QED  BY <1>6, <1>b, <2>1 DEF Applies
<1>11. Rule(u) = "SI test" => /\ ~is_custom_unit(u.base) /\ ~is_custom_count_unit(u.base)
                              /\ ~empty(u) /\ unit_type_count(u) # 1
  <2> SUFFICES ASSUME Rules[r] = "SI test"
               PROVE  /\ ~is_custom_unit(u.base) /\ ~is_custom_count_unit(u.base)
                      /\ ~empty(u) /\ unit_type_count(u) # 1
    BY <1>1
  <2>2. r = 12
    BY <1>7, <1>d
  <2> QED  BY <1>6, <1>c, <2>2 DEF Applies
<1> QED  BY <1>9, <1>10, <1>11

\* A unit by its parts.
LEMMA AnyShape ==
  ASSUME NEW u \in AnyUnit
  PROVE  /\ u = precise_unit(u.mult, u.base) /\ u.base \in AnyBase
         /\ u.base.exp \in [Base -> Int] /\ u.base.flags \in SUBSET Flag
         /\ u.base = [exp |-> u.base.exp, flags |-> u.base.flags]
         /\ \A b \in Base : /\ u.base.exp[b] \in Int
                            /\ MinVal(b) <= u.base.exp[b] /\ u.base.exp[b] <= MaxVal(b)
         /\ IsNormal(u.mult) => u.mult \in NormalMult
<1>1. u = precise_unit(u.mult, u.base) /\ u.base \in AnyBase /\ u.mult \in AnyMult
  BY DEF AnyUnit, precise_unit
<1>2. IsNormal(u.mult) => u.mult \in NormalMult
  BY <1>1, SpecialShape DEF AnyMult
<1> QED  BY <1>1, <1>2 DEF AnyBase, UnitDataType, InFields

\* What is left of a unit when it is divided, without its flags.
LEMMA LeftOver ==
  ASSUME NEW u \in AnyUnit, IsNormal(u.mult),
         NEW v, v.mult = One, v.base.exp \in [Base -> Int]
  PROVE  LET rest == clear_flags(UnitDivides(u, v))
         IN /\ rest = precise_unit(u.mult, [exp |-> rest.base.exp, flags |-> {}])
            /\ rest \in AnyUnit
            /\ \A b \in Base : rest.base.exp[b] = Wrap(b, u.base.exp[b] - v.base.exp[b])
<1> DEFINE e == [b \in Base |-> u.base.exp[b] - v.base.exp[b]]
           rest == clear_flags(UnitDivides(u, v))
<1>1. u.mult \in NormalMult /\ u.base.exp \in [Base -> Int]
  BY AnyShape
<1>2. MultTimes(u.mult, MultInv(v.mult)) = u.mult
  <2>1. MultPow(number(0, 0), -1) = number(0 * (-1), 0) /\ 0 * (-1) = 0
    BY PrefixPower
  <2>2. MultInv(One) = One /\ One \in NormalMult
    BY <2>1, MultTyped DEF MultInv, One
  <2> QED  BY <1>1, <2>2, MultLaws
<1>3. e \in [Base -> Int]
  BY <1>1
<1>4. rest = precise_unit(u.mult, unit_data(e, {}))
  <2> DEFINE flags == XorOn({"i_flag", "e_flag"}, u.base.flags, v.base.flags)
  <2> HIDE DEF e, flags
  <2>1. UnitDivides(u, v) = precise_unit(u.mult, unit_data(e, flags))
    BY <1>2 DEF UnitDivides, Divides, e, flags
  <2>2. ASSUME NEW m, NEW f, NEW x
        PROVE  clear_flags([mult |-> m, base |-> [exp |-> x, flags |-> f]])
                 = [mult |-> m, base |-> [exp |-> x, flags |-> {}]]
    <3> DEFINE b == [exp |-> x, flags |-> f]
               c == [b EXCEPT !.flags = {}]
               w == [mult |-> m, base |-> b]
    <3>1. w.base = b /\ clear_flags(w) = [w EXCEPT !.base = [w.base EXCEPT !.flags = {}]]
      BY DEF clear_flags
    <3>2. DOMAIN b = {"exp", "flags"} /\ b.exp = x
      OBVIOUS
    <3> HIDE DEF b
    <3>3. DOMAIN c = {"exp", "flags"} /\ c.exp = x /\ c.flags = {}
      BY <3>2
    <3>4. c = [i \in DOMAIN c |-> c[i]]
      OBVIOUS
    <3> HIDE DEF c
    <3>5. c = [exp |-> x, flags |-> {}]
      BY <3>3, <3>4
    <3>6. [w EXCEPT !.base = c] = [mult |-> m, base |-> c]
      OBVIOUS
    <3> QED  BY <3>1, <3>5, <3>6 DEF b, c
  <2>3. clear_flags(precise_unit(u.mult, unit_data(e, flags)))
          = precise_unit(u.mult, unit_data(e, {}))
    BY <2>2 DEF precise_unit, unit_data
  <2> QED  BY <2>1, <2>3
<1> HIDE DEF e, rest
<1>5. /\ unit_data(e, {}) \in AnyBase
      /\ \A b \in Base : unit_data(e, {}).exp[b] = Wrap(b, e[b])
  BY <1>3, StoreTyped DEF AnyBase
<1>6. unit_data(e, {}) = [exp |-> unit_data(e, {}).exp, flags |-> {}]
  BY DEF unit_data
<1>7. rest \in AnyUnit /\ rest.base = unit_data(e, {})
  BY <1>1, <1>4, <1>5 DEF AnyUnit, precise_unit, AnyMult
<1>8. \A b \in Base : e[b] = u.base.exp[b] - v.base.exp[b]
  BY DEF e
<1> QED  BY <1>4, <1>5, <1>6, <1>7, <1>8 DEF rest

\* Without flags, and with an ordinary number, a unit is a custom unit at most.
LEMMA KindOfFlagless ==
  ASSUME NEW u, IsNormal(u.mult), IsFloat(u.mult), u.base.flags = {}
  PROVE  /\ Kind(u) \in {0, 1}
         /\ ~is_custom_unit(u.base) /\ ~is_custom_count_unit(u.base) => Kind(u) = 0
BY DEF Kind

\* One is an ordinary number.
LEMMA OneIsOrdinary == IsNormal(One) /\ IsFloat(One)
<1>1. One.class = "normal" /\ One.ten = 0 /\ One.sixty = 0
  BY DEF One, number
<1> QED  BY <1>1 DEF IsNormal, IsFloat, Log

\* The exponents of a unit that is given by its powers.
LEMMA DimTyped ==
  ASSUME NEW powers, \A b \in DOMAIN powers : powers[b] \in Int, NEW flags
  PROVE  LET v == unit_data(dim(powers, {}).exp, flags)
         IN /\ v.exp \in [Base -> Int]
            /\ \A b \in Base : /\ MinVal(b) <= v.exp[b] /\ v.exp[b] <= MaxVal(b)
                               /\ v.exp[b] = Wrap(b, IF b \in DOMAIN powers THEN powers[b] ELSE 0)
<1> DEFINE e == dim(powers, {}).exp
           v == unit_data(e, flags)
<1>1. /\ e \in [Base -> Int]
      /\ \A b \in Base : e[b] = IF b \in DOMAIN powers THEN powers[b] ELSE 0
  BY DEF dim
<1>2. v.exp = [b \in Base |-> Wrap(b, e[b])]
  BY DEF unit_data
<1> HIDE DEF e, v
<1>3. \A b \in Base : /\ Wrap(b, e[b]) \in Int /\ MinVal(b) <= Wrap(b, e[b])
                      /\ Wrap(b, e[b]) <= MaxVal(b)
  BY <1>1, WrapRange
<1>4. v.exp \in [Base -> Int] /\ \A b \in Base : v.exp[b] = Wrap(b, e[b])
  BY <1>2, <1>3
<1> QED  BY <1>1, <1>3, <1>4 DEF v, e

\* What a numbered name reads as: a unit whose exponents are those of the
\* numbered unit or, inverted, their negatives.
LEMMA NumberedReads ==
  ASSUME TablesReadBack, NEW n, NEW k \in {-1, 1}, NEW name \in {"CXUN", "CXCUN"},
         NEW c, Known(Coded(name, n, k)) = Plain(c), c.exp \in [Base -> Int],
         \A b \in Base : MinVal(b) <= c.exp[b] /\ c.exp[b] <= MaxVal(b)
  PROVE  LET v == ReadTerm(Coded(name, n, k))
         IN /\ v.mult = One
            /\ v.base.exp \in [Base -> Int]
            /\ \A b \in Base : v.base.exp[b] = Wrap(b, c.exp[b] * k)
<1> DEFINE cx == Coded(name, n, k)
           ten == precise_unit(number(0, 0), Dimensionless)
           w == UnitTimes(ten, Known(cx))
           v == UnitPow(w, k)
<1>1. /\ cx.name = name /\ cx.code = n /\ cx.power = k /\ cx.prefix = 0
  BY DEF Coded, Term
<1>2. Known(cx) = Plain(c)
  OBVIOUS
<1>t. k \in Int /\ \A b \in Base : c.exp[b] \in Int /\ c.exp[b] * k \in Int
  <2>1. k \in Int /\ \A b \in Base : c.exp[b] \in Int
    OBVIOUS
  <2>2. \A i \in Int : i * k \in Int
    BY <2>1
  <2> QED  BY <2>1, <2>2
<1>3. ReadTerm(cx) = v
  <2>1. <<cx.prefix, cx.name, cx.power>> \notin Clash
    BY <1>1 DEF TablesReadBack
  <2> QED  BY <1>1, <2>1 DEF ReadTerm
<1> HIDE DEF cx
<1>4. w.mult = One /\ w.base = Times(Dimensionless, c)
  <2>1. MultTimes(One, One) = One
    BY MultLaws, MultTyped
  <2> QED  BY <1>2, <2>1 DEF UnitTimes, precise_unit, Plain, One
<1>5. w.base.exp \in [Base -> Int] /\ \A b \in Base : w.base.exp[b] = c.exp[b]
  <2>1. w.base.exp = [b \in Base |-> Wrap(b, 0 + c.exp[b])]
    BY <1>4 DEF Times, unit_data, Dimensionless
  <2>2. ASSUME NEW b \in Base
        PROVE  0 + c.exp[b] = c.exp[b] /\ Wrap(b, c.exp[b]) = c.exp[b]
    <3> DEFINE x == c.exp[b]
    <3>1. x \in Int /\ MinVal(b) <= x /\ x <= MaxVal(b)
      BY <1>t
    <3> HIDE DEF x
    <3> QED  BY <3>1, WrapFits DEF x
  <2> QED  BY <2>1, <2>2
<1> HIDE DEF w
<1>6. v.mult = One
  <2>1. MultPow(number(0, 0), k) = number(0 * k, 0) /\ 0 * k = 0
    BY PrefixPower
  <2> QED  BY <1>4, <2>1 DEF UnitPow, precise_unit, One
<1>7. v.base.exp = [b \in Base |-> Wrap(b, c.exp[b] * k)]
  <2>1. rootHertzModifier(w.base, k) = 0
    <3>1. ~IsEven(k)
      BY DEF IsEven
    <3> QED  BY <3>1 DEF rootHertzModifier
  <2>2. \A b \in Base : c.exp[b] * k + (IF b = Second THEN 0 ELSE 0) = c.exp[b] * k
    <3>1. \A i \in Int : i + 0 = i
      OBVIOUS
    <3> QED  BY <1>t, <3>1
  <2>3. v.base.exp = [b \in Base |-> Wrap(b, PowExponents(w.base, k)[b])]
    BY DEF UnitPow, precise_unit, Pow, unit_data
  <2>4. \A b \in Base : PowExponents(w.base, k)[b] = c.exp[b] * k
    BY <1>5, <2>1, <2>2 DEF PowExponents
  <2> QED  BY <2>3, <2>4
<1>8. \A b \in Base : Wrap(b, c.exp[b] * k) \in Int
  BY <1>t, WrapRange
<1> HIDE DEF v
<1> QED  BY <1>3, <1>6, <1>7, <1>8 DEF cx

\* The fields that tell a custom unit.
LEMMA TellingFields ==
  \A b \in {"mole", "ampere", "kelvin"} :
     b \in Base /\ Half[b] \in {2, 4, 8, 32, 128} /\ MinVal(b) \in Int /\ MinVal(b) # 0
<1>1. ASSUME NEW b \in Base PROVE Half[b] \in {2, 4, 8, 32, 128}
  BY HalfAssumption
<1>2. \A b \in {"mole", "ampere", "kelvin"} : b \in Base
  BY BaseAssumption
<1>3. \A h \in {2, 4, 8, 32, 128} : -h \in Int /\ -h # 0
  OBVIOUS
<1>4. ASSUME NEW b \in {"mole", "ampere", "kelvin"}
      PROVE  MinVal(b) \in Int /\ MinVal(b) # 0
  <2> DEFINE h == Half[b]
  <2>1. h \in {2, 4, 8, 32, 128}
    BY <1>1, <1>2
  <2> HIDE DEF h
  <2>2. -h \in Int /\ -h # 0
    BY <1>3, <2>1
  <2> QED  BY <2>2 DEF h, MinVal
<1> QED  BY <1>1, <1>2, <1>4

\* The exponents of the numbered units by which they are told.
LEMMA NumberedExponents ==
  ASSUME NEW n \in Int
  PROVE  LET c == custom_unit(n)
             d == custom_count_unit(n)
         IN /\ c.exp \in [Base -> Int] /\ d.exp \in [Base -> Int]
            /\ \A b \in Base : /\ MinVal(b) <= c.exp[b] /\ c.exp[b] <= MaxVal(b)
                               /\ MinVal(b) <= d.exp[b] /\ d.exp[b] <= MaxVal(b)
            /\ c.exp["mole"] = Wrap("mole", MinVal("mole"))
            /\ c.exp["kelvin"] = Wrap("kelvin", 3 * bShift(n, 4))
            /\ d.exp["ampere"] = Wrap("ampere", 3)
            /\ d.exp["kelvin"] = Wrap("kelvin", -3)
<1> DEFINE exps == [meter |-> 7 - 4 * bShift(n, 8), kilogram |-> -2 + 3 * bShift(n, 7),
                    second |-> 7 * bShift(n, 9),
                    ampere |-> MinVal("ampere") + 1 - bShift(n, 6),
                    kelvin |-> 3 * bShift(n, 4), mole |-> MinVal("mole"),
                    candela |-> -2 + 2 * bShift(n, 5), currency |-> -2 * bShift(n, 3)]
           counts == [ampere |-> 3, kelvin |-> -3, candela |-> -bShift(n, 3)]
<1>1. /\ bShift(n, 3) \in Int /\ bShift(n, 4) \in Int /\ bShift(n, 5) \in Int
      /\ bShift(n, 6) \in Int /\ bShift(n, 7) \in Int /\ bShift(n, 8) \in Int
      /\ bShift(n, 9) \in Int
  BY Bits
<1>2. MinVal("ampere") \in Int /\ MinVal("mole") \in Int
  BY TellingFields
<1>3. \A b \in DOMAIN exps : exps[b] \in Int
  BY <1>1, <1>2
<1>4. \A b \in DOMAIN counts : counts[b] \in Int
  BY <1>1
<1>5. /\ custom_unit(n) = unit_data(dim(exps, {}).exp, FlagsOf(n))
      /\ custom_count_unit(n) = unit_data(dim(counts, {}).exp, FlagsOf(n))
  BY DEF custom_unit, custom_count_unit
<1>6. /\ "mole" \in DOMAIN exps /\ "kelvin" \in DOMAIN exps
      /\ exps["mole"] = MinVal("mole") /\ exps["kelvin"] = 3 * bShift(n, 4)
      /\ "ampere" \in DOMAIN counts /\ "kelvin" \in DOMAIN counts
      /\ counts["ampere"] = 3 /\ counts["kelvin"] = -3
  OBVIOUS
<1>7. "mole" \in Base /\ "kelvin" \in Base /\ "ampere" \in Base
  BY BaseAssumption
<1> HIDE DEF exps, counts
<1>8. ASSUME NEW powers, \A b \in DOMAIN powers : powers[b] \in Int,
             NEW c, c = unit_data(dim(powers, {}).exp, FlagsOf(n))
      PROVE  /\ c.exp \in [Base -> Int]
             /\ \A b \in Base : /\ MinVal(b) <= c.exp[b] /\ c.exp[b] <= MaxVal(b)
                                /\ b \in DOMAIN powers => c.exp[b] = Wrap(b, powers[b])
  BY <1>8, DimTyped
<1> DEFINE c == custom_unit(n)
           d == custom_count_unit(n)
<1> HIDE DEF c, d
<1>9. /\ c.exp \in [Base -> Int]
      /\ \A b \in Base : /\ MinVal(b) <= c.exp[b] /\ c.exp[b] <= MaxVal(b)
                         /\ b \in DOMAIN exps => c.exp[b] = Wrap(b, exps[b])
  BY <1>3, <1>5, <1>8 DEF c
<1>10. /\ d.exp \in [Base -> Int]
       /\ \A b \in Base : /\ MinVal(b) <= d.exp[b] /\ d.exp[b] <= MaxVal(b)
                          /\ b \in DOMAIN counts => d.exp[b] = Wrap(b, counts[b])
  BY <1>4, <1>5, <1>8 DEF d
<1>11. /\ c.exp["mole"] = Wrap("mole", MinVal("mole"))
       /\ c.exp["kelvin"] = Wrap("kelvin", 3 * bShift(n, 4))
  BY <1>6, <1>7, <1>9
<1>12. d.exp["ampere"] = Wrap("ampere", 3) /\ d.exp["kelvin"] = Wrap("kelvin", -3)
  BY <1>6, <1>7, <1>10
<1> QED  BY <1>9, <1>10, <1>11, <1>12 DEF c, d

\* The bit of the kelvin in the number of a custom unit.
LEMMA KelvinBit ==
  ASSUME NEW u
  PROVE  /\ custom_unit_number(u) \in Int /\ custom_count_unit_number(u) \in Int
         /\ bShift(custom_unit_number(u), 4) = IF Abs(u.exp["kelvin"]) = 3 THEN 1 ELSE 0
<1> DEFINE a == If(Abs(u.exp["meter"]) < 4, 256)
           b == If(Abs(u.exp["second"]) >= 6, 512)
           c == If(Abs(u.exp["kilogram"]) <= 1, 128)
           d == If(Abs(u.exp["kelvin"]) = 3, 16)
           e == If(u.exp["ampere"] = MinVal("ampere"), 64)
           f == If(Abs(u.exp["candela"]) < 2, 32)
           g == If(Abs(u.exp["currency"]) >= 2, 8)
           h == If(u.exp["candela"] # 0, 8)
           flags == FlagBits(u)
           n == flags + a + b + c + d + e + f + g
<1>1. flags \in 0..7
  BY DEF FlagBits
<1>2. /\ a = 0 \/ a = 256
      /\ b = 0 \/ b = 512
      /\ c = 0 \/ c = 128
      /\ d = 0 \/ d = 16
      /\ e = 0 \/ e = 64
      /\ f = 0 \/ f = 32
      /\ g = 0 \/ g = 8
      /\ h = 0 \/ h = 8
      /\ d = IF Abs(u.exp["kelvin"]) = 3 THEN 16 ELSE 0
  BY DEF If
<1>3. custom_unit_number(u) = n /\ custom_count_unit_number(u) = flags + h
  BY DEF custom_unit_number, custom_count_unit_number
<1> DEFINE high == 16 * (a \div 32) + 8 * (c \div 16)
<1> HIDE DEF a, b, c, d, e, f, g, h, flags
<1>4. n \in Int /\ flags + h \in Int
  BY <1>1, <1>2
<1> DEFINE q == (a \div 32) + (b \div 32) + (c \div 32) + (e \div 32) + (f \div 32)
<1>5. /\ a = 32 * (a \div 32) /\ b = 32 * (b \div 32) /\ c = 32 * (c \div 32)
      /\ e = 32 * (e \div 32) /\ f = 32 * (f \div 32) /\ d = 16 * (d \div 16)
      /\ q \in Int /\ d \div 16 \in 0..1
  BY <1>2
<1>6. flags + g \in 0..15
  BY <1>1, <1>2
<1>7. n = 16 * (2 * q + d \div 16) + (flags + g)
  BY <1>1, <1>2, <1>5
<1> HIDE DEF n, q
<1>8. (n \div 16) % 2 = d \div 16
  <2> DEFINE x == d \div 16
             y == flags + g
  <2>1. x \in 0..1 /\ y \in 0..15 /\ q \in Int /\ n = 16 * (2 * q + x) + y
    BY <1>5, <1>6, <1>7
  <2> HIDE DEF x, y
  <2>2. n \div 16 = 2 * q + x
    BY <2>1
  <2>3. (2 * q + x) % 2 = x
    BY <2>1
  <2> QED  BY <2>2, <2>3 DEF x
<1>9. bShift(n, 4) = d \div 16
  <2>1. 2^4 = 16
    OBVIOUS
  <2> QED  BY <1>8, <2>1 DEF bShift
<1> QED  BY <1>2, <1>3, <1>4, <1>9

\* What is left of a custom unit, or of a counting unit, is neither.
LEMMA CustomLeft ==
  ASSUME TablesReadBack, NEW u \in AnyUnit, IsNormal(u.mult), is_custom_unit(u.base),
         NEW k \in {-1, 1}
  PROVE  LET rest == clear_flags(UnitDivides(u, ReadTerm(Coded("CXUN", custom_unit_number(u.base), k))))
         IN /\ rest \in AnyUnit /\ rest.mult = u.mult /\ rest.base.flags = {}
            /\ ~is_custom_unit(rest.base) /\ ~is_custom_count_unit(rest.base)
<1> DEFINE n == custom_unit_number(u.base)
           c == custom_unit(n)
           cx == Coded("CXUN", n, k)
           v == ReadTerm(cx)
           rest == clear_flags(UnitDivides(u, v))
           bit == bShift(n, 4)
           mole == u.base.exp["mole"]
           kelvin == u.base.exp["kelvin"]
<1>1. n \in Int /\ bit = IF Abs(kelvin) = 3 THEN 1 ELSE 0
  BY KelvinBit
<1>2. Known(cx) = Plain(c)
  BY DEF Known, Coded, Term
<1> HIDE DEF n
<1>3. /\ c.exp \in [Base -> Int]
      /\ \A b \in Base : MinVal(b) <= c.exp[b] /\ c.exp[b] <= MaxVal(b)
      /\ c.exp["mole"] = Wrap("mole", MinVal("mole"))
      /\ c.exp["kelvin"] = Wrap("kelvin", 3 * bit)
  BY <1>1, NumberedExponents
<1> HIDE DEF c, bit
<1>4. /\ v.mult = One /\ v.base.exp \in [Base -> Int]
      /\ \A b \in Base : v.base.exp[b] = Wrap(b, c.exp[b] * k)
  BY <1>2, <1>3, NumberedReads
<1> HIDE DEF v, cx
<1>5. /\ rest = precise_unit(u.mult, [exp |-> rest.base.exp, flags |-> {}])
      /\ rest \in AnyUnit
      /\ \A b \in Base : rest.base.exp[b] = Wrap(b, u.base.exp[b] - v.base.exp[b])
  BY <1>4, LeftOver
<1> HIDE DEF rest
<1>6. "mole" \in Base /\ "kelvin" \in Base /\ Half["mole"] \in {2, 4, 8, 32, 128}
      /\ Half["kelvin"] \in {2, 4, 8, 32, 128}
  BY TellingFields
<1>7. mole = MinVal("mole") /\ kelvin \in Int /\ MinVal("kelvin") <= kelvin /\ kelvin <= MaxVal("kelvin")
  BY <1>6, AnyShape DEF is_custom_unit
<1>8. rest.base.exp["mole"] = 0
  <2>1. rest.base.exp["mole"] = Wrap("mole", mole - Wrap("mole", Wrap("mole", MinVal("mole")) * k))
    BY <1>3, <1>4, <1>5, <1>6
  <2> HIDE DEF mole
  <2>2. CASE Half["mole"] = 2    BY <1>7, <2>1, <2>2 DEF Wrap, MinVal
  <2>3. CASE Half["mole"] = 4    BY <1>7, <2>1, <2>3 DEF Wrap, MinVal
  <2>4. CASE Half["mole"] = 8    BY <1>7, <2>1, <2>4 DEF Wrap, MinVal
  <2>5. CASE Half["mole"] = 32   BY <1>7, <2>1, <2>5 DEF Wrap, MinVal
  <2>6. CASE Half["mole"] = 128  BY <1>7, <2>1, <2>6 DEF Wrap, MinVal
  <2> QED  BY <1>6, <2>2, <2>3, <2>4, <2>5, <2>6
<1>9. rest.base.exp["kelvin"] \notin {-3, 3}
  <2>1. rest.base.exp["kelvin"] = Wrap("kelvin", kelvin - Wrap("kelvin", Wrap("kelvin", 3 * bit) * k))
    BY <1>3, <1>4, <1>5, <1>6
  <2> HIDE DEF kelvin
  <2>2. bit \in {0, 1} /\ (bit = 1 <=> kelvin = 3 \/ kelvin = -3)
    BY <1>1, <1>7 DEF Abs
  <2>3. CASE Half["kelvin"] = 2
    BY <1>7, <2>1, <2>2, <2>3 DEF Wrap, MinVal, MaxVal
  <2>4. CASE Half["kelvin"] = 4
    BY <1>7, <2>1, <2>2, <2>4 DEF Wrap, MinVal, MaxVal
  <2>5. CASE Half["kelvin"] = 8
    BY <1>7, <2>1, <2>2, <2>5 DEF Wrap, MinVal, MaxVal
  <2>6. CASE Half["kelvin"] = 32
    BY <1>7, <2>1, <2>2, <2>6 DEF Wrap, MinVal, MaxVal
  <2>7. CASE Half["kelvin"] = 128
    BY <1>7, <2>1, <2>2, <2>7 DEF Wrap, MinVal, MaxVal
  <2> QED  BY <1>6, <2>3, <2>4, <2>5, <2>6, <2>7
<1>10. ~is_custom_unit(rest.base)
  <2>1. MinVal("mole") # 0
    BY TellingFields
  <2> QED  BY <1>8, <2>1 DEF is_custom_unit
<1>11. ~is_custom_count_unit(rest.base)
  BY <1>9 DEF is_custom_count_unit
<1>12. rest.mult = u.mult /\ rest.base.flags = {}
  <2>1. ASSUME NEW m, NEW b PROVE precise_unit(m, b).mult = m /\ precise_unit(m, b).base = b
    BY DEF precise_unit
  <2> QED  BY <1>5, <2>1
<1> QED  BY <1>5, <1>10, <1>11, <1>12 DEF rest, v, cx, n

\* What is left of a custom counting unit when its number is divided out.
LEMMA CountLeft ==
  ASSUME TablesReadBack, NEW u \in AnyUnit, IsNormal(u.mult), is_custom_count_unit(u.base)
  PROVE  LET k == IF is_custom_count_unit_inverted(u.base) THEN -1 ELSE 1
             rest == clear_flags(UnitDivides(u, ReadTerm(Coded("CXCUN", custom_count_unit_number(u.base), k))))
         IN /\ rest \in AnyUnit /\ rest.mult = u.mult /\ rest.base.flags = {}
            /\ ~is_custom_unit(rest.base) /\ ~is_custom_count_unit(rest.base)
<1> DEFINE n == custom_count_unit_number(u.base)
           k == IF is_custom_count_unit_inverted(u.base) THEN -1 ELSE 1
           c == custom_count_unit(n)
           cx == Coded("CXCUN", n, k)
           v == ReadTerm(cx)
           rest == clear_flags(UnitDivides(u, v))
           ampere == u.base.exp["ampere"]
           kelvin == u.base.exp["kelvin"]
<1>1. n \in Int /\ k \in {-1, 1}
  BY KelvinBit
<1>2. Known(cx) = Plain(c)
  BY DEF Known, Coded, Term
<1>3. (ampere = 3 /\ k = 1) \/ (ampere = -3 /\ k = -1)
  <2>1. <<kelvin, ampere>> \in {<<-3, 3>>, <<3, -3>>}
    BY DEF is_custom_count_unit
  <2>2. k = IF kelvin = 3 /\ ampere = -3 THEN -1 ELSE 1
    BY DEF is_custom_count_unit_inverted
  <2> HIDE DEF k, kelvin, ampere
  <2>3. CASE <<kelvin, ampere>> = <<-3, 3>>
    BY <2>2, <2>3
  <2>4. CASE <<kelvin, ampere>> = <<3, -3>>
    BY <2>2, <2>4
  <2> QED  BY <2>1, <2>3, <2>4
<1> HIDE DEF n, k
<1>4. /\ c.exp \in [Base -> Int]
      /\ \A b \in Base : MinVal(b) <= c.exp[b] /\ c.exp[b] <= MaxVal(b)
      /\ c.exp["ampere"] = Wrap("ampere", 3)
  BY <1>1, NumberedExponents
<1> HIDE DEF c
<1>5. /\ v.mult = One /\ v.base.exp \in [Base -> Int]
      /\ \A b \in Base : v.base.exp[b] = Wrap(b, c.exp[b] * k)
  BY <1>1, <1>2, <1>4, NumberedReads
<1> HIDE DEF v, cx
<1>6. /\ rest = precise_unit(u.mult, [exp |-> rest.base.exp, flags |-> {}])
      /\ rest \in AnyUnit
      /\ \A b \in Base : rest.base.exp[b] = Wrap(b, u.base.exp[b] - v.base.exp[b])
  BY <1>5, LeftOver
<1> HIDE DEF rest
<1>7. "ampere" \in Base /\ Half["ampere"] \in {2, 4, 8, 32, 128}
  BY TellingFields
<1>8. ampere \in Int /\ MinVal("ampere") <= ampere /\ ampere <= MaxVal("ampere")
  BY <1>7, AnyShape
<1>9. rest.base.exp["ampere"] = 0
  <2>1. rest.base.exp["ampere"] = Wrap("ampere", ampere - Wrap("ampere", Wrap("ampere", 3) * k))
    BY <1>4, <1>5, <1>6, <1>7
  <2> HIDE DEF ampere
  <2>2. CASE Half["ampere"] = 2    BY <1>3, <1>8, <2>1, <2>2 DEF Wrap, MinVal, MaxVal
  <2>3. CASE Half["ampere"] = 4    BY <1>3, <1>8, <2>1, <2>3 DEF Wrap, MinVal, MaxVal
  <2>4. CASE Half["ampere"] = 8    BY <1>3, <1>8, <2>1, <2>4 DEF Wrap, MinVal, MaxVal
  <2>5. CASE Half["ampere"] = 32   BY <1>3, <1>8, <2>1, <2>5 DEF Wrap, MinVal, MaxVal
  <2>6. CASE Half["ampere"] = 128  BY <1>3, <1>8, <2>1, <2>6 DEF Wrap, MinVal, MaxVal
  <2> QED  BY <1>7, <2>2, <2>3, <2>4, <2>5, <2>6
<1>10. ~is_custom_unit(rest.base) /\ ~is_custom_count_unit(rest.base)
  BY <1>9 DEF is_custom_unit, is_custom_count_unit, Abs
<1>11. rest.mult = u.mult /\ rest.base.flags = {}
  <2>1. ASSUME NEW m, NEW b PROVE precise_unit(m, b).mult = m /\ precise_unit(m, b).base = b
    BY DEF precise_unit
  <2> QED  BY <1>6, <2>1
<1> QED  BY <1>6, <1>10, <1>11 DEF rest, v, cx, n, k

(***************************************************************************)
(* Each call is for a smaller unit.                                        *)
(***************************************************************************)
Below(u, v) == \/ Kind(u) < Kind(v)
               \/ Kind(u) = Kind(v) /\ unit_type_count(u) < unit_type_count(v)


\* INF, NaN, 0 and the numbers beyond a float go with the number ...
LEMMA NumberDescends ==
  ASSUME Descends, NumberFirst
  PROVE  un' \in AnyUnit /\ Below(un', un)
<1>1. /\ un \in AnyUnit /\ rule = Rule(un) /\ rule \in {"special", "magnitude"}
      /\ un' = Plain(un.base)
  BY DEF NumberFirst, Chosen, WriteAround, Descends
<1>2. Kind(un) = 3
  <2>1. Applies("special", un) \/ Applies("magnitude", un)
    BY <1>1, RuleApplies
  <2>2. ~IsNormal(un.mult) \/ ~IsFloat(un.mult)
    BY <2>1 DEF Applies
  <2> QED  BY <2>2 DEF Kind
<1>3. Plain(un.base) = precise_unit(One, un.base) /\ un.base \in AnyBase /\ One \in AnyMult
  BY <1>1, AnyShape, MultTyped DEF Plain, AnyMult
<1>4. un' \in AnyUnit /\ un'.mult = One
  BY <1>1, <1>3 DEF precise_unit, AnyUnit
<1>5. Kind(un') \in {0, 1, 2}
  BY <1>4, OneIsOrdinary DEF Kind
<1>6. Kind(un') < Kind(un)
  BY <1>2, <1>5
<1> QED  BY <1>4, <1>6 DEF Below

\* ... the flag of an equation with its number ...
LEMMA EquationDescends ==
  ASSUME Descends, Equation
  PROVE  un' \in AnyUnit /\ (un' = un \/ Below(un', un))
<1> DEFINE n == eq_type(un.base)
           v == Plain(equation_unit(n))
           urem == clear_flags(UnitDivides(un, v))
           cx == Coded("EQXUN", n, 1)
<1>1. un \in AnyUnit /\ rule = Rule(un) /\ rule = "equation"
  BY DEF Equation, Chosen, Descends
<1>2. un' = un \/ un' = Plain(urem.base) \/ un' = urem
  BY DEF Equation, Finish, WriteAround
<1>3. IsNormal(un.mult) /\ IsFloat(un.mult)
  BY <1>1, RuleOrder
<1>4. Kind(un) = 2
  <2>1. Applies("equation", un)
    <3>1. Applies(Rule(un), un)
      BY RuleApplies
    <3> QED  BY <1>1, <3>1
  <2>2. "equation" \in un.base.flags
    BY <2>1 DEF Applies
  <2> QED  BY <1>3, <2>2 DEF Kind
<1>5. v.mult = One /\ v.base.exp \in [Base -> Int]
  <2> DEFINE powers == [count |-> bShift(n, 3), radian |-> bShift(n, 4)]
  <2>1. n \in Int
    <3> DEFINE flags == FlagBits(un.base)
               a == If(un.base.exp["count"] # 0, 8)
               b == If(un.base.exp["radian"] # 0, 16)
    <3>1. flags \in Int
      BY DEF FlagBits
    <3>2. a \in Int /\ b \in Int
      BY DEF If
    <3>3. n = flags + a + b
      BY DEF eq_type
    <3> HIDE DEF flags, a, b
    <3> QED  BY <3>1, <3>2, <3>3
  <2> HIDE DEF n
  <2>2. bShift(n, 3) \in Int /\ bShift(n, 4) \in Int
    BY <2>1, Bits
  <2>3. \A b \in DOMAIN powers : powers[b] \in Int
    BY <2>2
  <2>4. equation_unit(n) = unit_data(dim(powers, {}).exp, FlagsOf(n) \cup {"equation"})
    BY DEF equation_unit
  <2> HIDE DEF powers
  <2>5. ASSUME NEW flags PROVE unit_data(dim(powers, {}).exp, flags).exp \in [Base -> Int]
    BY <2>3, DimTyped
  <2>6. equation_unit(n).exp \in [Base -> Int]
    BY <2>4, <2>5
  <2> QED  BY <2>6 DEF Plain, precise_unit
<1> HIDE DEF n, v
<1>6. /\ urem = precise_unit(un.mult, [exp |-> urem.base.exp, flags |-> {}])
      /\ urem \in AnyUnit
  BY <1>1, <1>3, <1>5, LeftOver
<1> HIDE DEF urem
<1>7. urem.mult = un.mult /\ urem.base.flags = {}
  <2>1. ASSUME NEW m, NEW b PROVE precise_unit(m, b).mult = m /\ precise_unit(m, b).base = b
    BY DEF precise_unit
  <2> QED  BY <1>6, <2>1
<1>8. Plain(urem.base) \in AnyUnit /\ Plain(urem.base).mult = One
      /\ Plain(urem.base).base = urem.base
  BY <1>6, AnyShape, MultTyped DEF Plain, precise_unit, AnyUnit, AnyMult
<1>9. Kind(urem) \in {0, 1} /\ Kind(Plain(urem.base)) \in {0, 1}
  BY <1>3, <1>7, <1>8, KindOfFlagless, OneIsOrdinary
<1>10. Kind(urem) < Kind(un) /\ Kind(Plain(urem.base)) < Kind(un)
  BY <1>4, <1>9
<1> QED  BY <1>1, <1>2, <1>6, <1>8, <1>10 DEF Below

\* ... what makes a unit a custom unit with its name ...
LEMMA CustomDescends ==
  ASSUME TablesReadBack, Descends, Custom \/ CustomCount
  PROVE  un' \in AnyUnit /\ (un' = un \/ Below(un', un))
<1>1. /\ un \in AnyUnit /\ rule = Rule(un) /\ rule \in {"custom", "custom count"}
  BY DEF Custom, CustomCount, Chosen, Descends
<1>2. IsNormal(un.mult) /\ IsFloat(un.mult) /\ "equation" \notin un.base.flags
  BY <1>1, RuleOrder
<1>3. Applies(rule, un)
  BY <1>1, RuleApplies
<1>4. Kind(un) = 1
  <2>1. is_custom_unit(un.base) \/ is_custom_count_unit(un.base)
    BY <1>1, <1>3 DEF Applies
  <2> QED  BY <1>2, <2>1 DEF Kind
<1>5. ASSUME NEW cx, WriteCustom(cx)
      PROVE  un' = un \/ un' = clear_flags(UnitDivides(un, ReadTerm(cx)))
  BY <1>5 DEF WriteCustom, Finish, WriteAround
<1>6. ASSUME NEW rest \in AnyUnit, rest.mult = un.mult, rest.base.flags = {},
             ~is_custom_unit(rest.base), ~is_custom_count_unit(rest.base),
             un' = un \/ un' = rest
      PROVE  un' \in AnyUnit /\ (un' = un \/ Below(un', un))
  <2>1. Kind(rest) = 0
    BY <1>2, <1>6, KindOfFlagless
  <2>2. Kind(rest) < Kind(un)
    BY <1>4, <2>1
  <2> QED  BY <1>1, <1>6, <2>2 DEF Below
<1>7. CASE Custom
  <2> DEFINE k == IF is_custom_unit_inverted(un.base) THEN -1 ELSE 1
             cx == Coded("CXUN", custom_unit_number(un.base), k)
             rest == clear_flags(UnitDivides(un, ReadTerm(cx)))
  <2>1. WriteCustom(cx) /\ rule = "custom"
    BY <1>7 DEF Custom, Chosen
  <2>2. is_custom_unit(un.base)
    BY <1>3, <2>1 DEF Applies
  <2>3. k \in {-1, 1}
    OBVIOUS
  <2>4. un' = un \/ un' = rest
    BY <1>5, <2>1
  <2> HIDE DEF k
  <2>5. /\ rest \in AnyUnit /\ rest.mult = un.mult /\ rest.base.flags = {}
        /\ ~is_custom_unit(rest.base) /\ ~is_custom_count_unit(rest.base)
    BY <1>1, <1>2, <2>2, <2>3, CustomLeft
  <2> HIDE DEF rest
  <2> QED  BY <1>6, <2>4, <2>5
<1>8. CASE CustomCount
  <2> DEFINE k == IF is_custom_count_unit_inverted(un.base) THEN -1 ELSE 1
             cx == Coded("CXCUN", custom_count_unit_number(un.base), k)
             rest == clear_flags(UnitDivides(un, ReadTerm(cx)))
  <2>1. WriteCustom(cx) /\ rule = "custom count"
    BY <1>8 DEF CustomCount, Chosen
  <2>2. is_custom_count_unit(un.base)
    BY <1>3, <2>1 DEF Applies
  <2>3. /\ rest \in AnyUnit /\ rest.mult = un.mult /\ rest.base.flags = {}
        /\ ~is_custom_unit(rest.base) /\ ~is_custom_count_unit(rest.base)
    BY <1>1, <1>2, <2>2, CountLeft
  <2> HIDE DEF cx
  <2>4. un' = un \/ un' = rest
    BY <1>5, <2>1
  <2> HIDE DEF rest
  <2> QED  BY <1>6, <2>3, <2>4
<1> QED  BY <1>7, <1>8

\* ... and what takes a prefix with all but one base unit.
LEMMA SITestDescends ==
  ASSUME TablesReadBack, Descends, SITest
  PROVE  un' \in AnyUnit /\ (un' = un \/ Below(un', un))
<1>1. un \in AnyUnit /\ rule = Rule(un) /\ rule = "SI test"
  BY DEF SITest, Chosen, Descends
<1>2. /\ IsNormal(un.mult) /\ IsFloat(un.mult) /\ "equation" \notin un.base.flags
      /\ ~is_custom_unit(un.base) /\ ~is_custom_count_unit(un.base)
      /\ ~empty(un) /\ unit_type_count(un) # 1
  BY <1>1, RuleOrder
<1>3. Kind(un) = 0
  BY <1>2 DEF Kind
<1>4. unit_type_count(un) \in Nat \ {0, 1}
  <2>1. unit_type_count(un) \in Nat
    BY DEF unit_type_count, If
  <2>2. unit_type_count(un) # 0
    BY <1>2 DEF empty
  <2> QED  BY <1>2, <2>1, <2>2
<1>5. PICK part \in AllSIParts(un) : un' = un \/ (part.rest # one /\ un' = part.rest)
  BY DEF SITest, Finish, WriteAround
<1>6. PICK v, base : /\ v \in FlagFree /\ base \in {Divides(un.base, v.base), Times(un.base, v.base)}
                     /\ unit_type_count(Plain(base)) <= 1
                     /\ part.rest \in {one, Plain(base)}
  <2>1. PICK si : si.unit \in FlagFree /\ part \in FirstOf(SIParts(un, si))
    <3> DEFINE sets == [i \in DOMAIN SITestUnits |-> FirstOf(SIParts(un, SITestUnits[i]))]
    <3>1. /\ SITestUnits \in Seq({p \in NamedUnit : p.term.power = 1})
          /\ Len(SITestUnits) \in Nat /\ DOMAIN SITestUnits = 1..Len(SITestUnits)
      BY SeqShape DEF TablesReadBack
    <3>2. part \in FirstOf(sets) /\ DOMAIN sets = 1..Len(SITestUnits)
      BY <3>1 DEF AllSIParts
    <3>3. \A i \in 1..Len(SITestUnits) : sets[i] = FirstOf(SIParts(un, SITestUnits[i]))
      BY <3>1
    <3> HIDE DEF sets
    <3>4. PICK i \in 1..Len(SITestUnits) : part \in sets[i]
      BY <3>1, <3>2, FirstOfMember
    <3>5. SITestUnits[i] \in {p \in NamedUnit : p.term.power = 1}
      BY <3>1
    <3>6. SITestUnits[i].unit \in FlagFree
      BY <3>5 DEF NamedUnit
    <3> QED  BY <3>3, <3>4, <3>6
  <2> DEFINE v == si.unit
             by == UnitDivides(un, v)
             over == UnitTimes(un, v)
             factor == [si.term EXCEPT !.prefix = by.mult.ten]
             divisor == Dividing([si.term EXCEPT !.prefix = -over.mult.ten])
             parts == SIParts(un, si)
  <2>2. /\ DOMAIN parts = 1..2
        /\ parts[1] = IF OneOrPrefix(by.mult) /\ unit_type_count(by) <= 1
                      THEN {IF unit_type_count(by) = 0
                            THEN Part(addUnitFlagStrings(by, <<factor>>), one, <<>>)
                            ELSE Part(<<factor>>, Plain(by.base), <<>>)}
                      ELSE {}
        /\ parts[2] = IF OneOrPrefix(MultInv(over.mult)) /\ unit_type_count(over) <= 1
                      THEN {IF unit_type_count(over) = 0
                            THEN Part(Append(addUnitFlagStrings(over, <<>>), divisor), one, <<>>)
                            ELSE Part(<<>>, Plain(over.base), <<divisor>>)}
                      ELSE {}
    BY DEF SIParts
  <2>3. /\ by.base = Divides(un.base, v.base) /\ over.base = Times(un.base, v.base)
        /\ v \in FlagFree /\ part \in FirstOf(parts)
    BY <2>1 DEF UnitDivides, UnitTimes, precise_unit
  <2> HIDE DEF v, by, over, factor, divisor, parts
  <2>4. part \in parts[1] \/ part \in parts[2]
    <3>1. PICK j \in 1..2 : part \in parts[j]
      BY <2>2, <2>3, FirstOfMember, 2 \in Nat
    <3>2. j = 1 \/ j = 2
      OBVIOUS
    <3> QED  BY <3>1, <3>2
  <2>5. ASSUME NEW w, unit_type_count(w) <= 1
        PROVE  unit_type_count(Plain(w.base)) <= 1
    <3>1. Plain(w.base).base = w.base
      BY DEF Plain, precise_unit
    <3> QED  BY <2>5, <3>1 DEF unit_type_count
  <2>6. ASSUME NEW p, NEW x, NEW q PROVE Part(p, x, q).rest = x
    BY DEF Part
  <2>7. CASE part \in parts[1]
    <3>1. unit_type_count(by) <= 1 /\ part.rest \in {one, Plain(by.base)}
      BY <2>2, <2>6, <2>7
    <3> QED  BY <2>3, <2>5, <3>1
  <2>8. CASE part \in parts[2]
    <3>1. unit_type_count(over) <= 1 /\ part.rest \in {one, Plain(over.base)}
      BY <2>2, <2>6, <2>8
    <3> QED  BY <2>3, <2>5, <3>1
  <2> QED  BY <2>4, <2>7, <2>8
<1>7. base \in AnyBase /\ base.flags = un.base.flags
  <2> DEFINE e == un.base.exp
             f == v.base.exp
             sum == [b \in Base |-> e[b] + f[b]]
             difference == [b \in Base |-> e[b] - f[b]]
  <2>1. e \in [Base -> Int] /\ f \in [Base -> Int] /\ un.base.flags \in SUBSET Flag
        /\ v.base.flags = {}
    <3>1. v.base \in FlagFreeBase
      BY <1>6, UnitShape
    <3> QED  BY <1>1, <3>1, AnyShape DEF FlagFreeBase, UnitDataType
  <2>2. sum \in [Base -> Int] /\ difference \in [Base -> Int]
    BY <2>1
  <2>3. \A F, S : XorOn(F, S, {}) = S
    BY DEF XorOn, Xor
  <2>4. base \in {unit_data(sum, un.base.flags), unit_data(difference, un.base.flags)}
    BY <1>6, <2>1, <2>3 DEF Times, Divides
  <2> HIDE DEF sum, difference
  <2>5. \A x : unit_data(x, un.base.flags).flags = un.base.flags
    BY DEF unit_data
  <2> QED  BY <2>1, <2>2, <2>4, <2>5, StoreTyped DEF AnyBase
<1>8. ~is_custom_unit(base) /\ ~is_custom_count_unit(base)
  <2> DEFINE rest == Plain(base)
  <2>1. rest.base = base
    BY DEF Plain, precise_unit
  <2>2. base.exp["ampere"] # 0 /\ (base.exp["mole"] # 0 \/ base.exp["kelvin"] # 0)
          => unit_type_count(rest) >= 2
    BY <2>1 DEF unit_type_count, If
  <2> HIDE DEF rest
  <2>3. ~(base.exp["ampere"] # 0 /\ (base.exp["mole"] # 0 \/ base.exp["kelvin"] # 0))
    <3>1. unit_type_count(rest) \in Nat
      BY DEF unit_type_count, If
    <3> QED  BY <1>6, <2>2, <3>1 DEF rest
  <2>4. is_custom_unit(base) => base.exp["mole"] # 0 /\ base.exp["ampere"] # 0
    BY TellingFields DEF is_custom_unit, Abs
  <2>5. is_custom_count_unit(base) => base.exp["kelvin"] # 0 /\ base.exp["ampere"] # 0
    <3>1. ASSUME NEW x, NEW y, <<x, y>> \in {<<-3, 3>>, <<3, -3>>}
          PROVE  x # 0 /\ y # 0
      <4>1. CASE <<x, y>> = <<-3, 3>>
        BY <4>1
      <4>2. CASE <<x, y>> = <<3, -3>>
        BY <4>2
      <4> QED  BY <3>1, <4>1, <4>2
    <3> QED  BY <3>1 DEF is_custom_count_unit
  <2> QED  BY <2>3, <2>4, <2>5
<1>9. ASSUME un' = Plain(base)
      PROVE  un' \in AnyUnit /\ Below(un', un)
  <2>1. un' \in AnyUnit /\ un'.mult = One /\ un'.base = base
    BY <1>7, <1>9, MultTyped DEF Plain, precise_unit, AnyUnit, AnyMult
  <2>2. Kind(un') = 0
    BY <1>2, <1>7, <1>8, <2>1, OneIsOrdinary DEF Kind
  <2>3. unit_type_count(un') <= 1 /\ unit_type_count(un') \in Nat
    <3>1. unit_type_count(Plain(base)) <= 1
      BY <1>6
    <3>2. unit_type_count(un') \in Nat
      BY DEF unit_type_count, If
    <3> QED  BY <1>9, <3>1, <3>2
  <2>4. unit_type_count(un') < unit_type_count(un)
    BY <1>4, <2>3
  <2> QED  BY <1>3, <2>1, <2>2, <2>4 DEF Below
<1>10. CASE un' = un
  BY <1>1, <1>10
<1>11. CASE un' = Plain(base)
  BY <1>9, <1>11
<1>12. un' = un \/ un' = Plain(base)
  BY <1>5, <1>6
<1> QED  BY <1>10, <1>11, <1>12

\* No step calls the writer for anything else.
LEMMA NextDescends ==
  ASSUME TablesReadBack, Descends, [Next]_vars
  PROVE  Descends' /\ (un' = un \/ Below(un', un))
<1>1. CASE Choose
  BY <1>1 DEF Choose, Descends
<1>2. CASE UNCHANGED vars
  BY <1>2 DEF vars, Descends
<1>3. ASSUME phase' # "writing", un' \in AnyUnit
      PROVE  Descends'
  BY <1>3 DEF Descends
<1>4. CASE NumberFirst \/ Equation \/ Custom \/ CustomCount \/ SITest
  <2>1. phase' # "writing"
    BY <1>4 DEF NumberFirst, Equation, Custom, CustomCount, WriteCustom, SITest, Finish, WriteAround
  <2>2. un' \in AnyUnit /\ (un' = un \/ Below(un', un))
    BY <1>4, NumberDescends, EquationDescends, CustomDescends, SITestDescends
  <2> QED  BY <1>3, <2>1, <2>2
<1>5. CASE \/ Name \/ InverseName \/ Number \/ Square \/ Cube \/ BaseUnits
           \/ PureBase \/ InversePureBase \/ ProbeOrReduce \/ clean_unit_string
  <2>1. phase' # "writing" /\ un' = un
    BY <1>5 DEF Name, InverseName, Number, Square, Cube, BaseUnits, PureBase, InversePureBase,
       ProbeOrReduce, clean_unit_string, Finish
  <2>2. un \in AnyUnit
    BY DEF Descends
  <2> QED  BY <1>3, <2>1, <2>2
<1> QED  BY <1>1, <1>2, <1>4, <1>5 DEF Next, to_string_internal, Done

\* The recursion of to_string_internal ends.  For any unit, with flags or
\* without, and with any number, the writer calls itself only for a unit of
\* a simpler kind, or of the same kind and with fewer base units: an infinite
\* or unrepresentable number is written first and leaves an ordinary one,
\* what is left of an equation unit has no flags, what is left of a custom
\* unit is not a custom unit again although its exponents wrap, and the SI
\* test leaves one base unit of two or more.
THEOREM RecursionEnds ==
  ASSUME TablesReadBack
  PROVE  Spec => CallsAreSmaller
<1>1. Init => Descends
  BY InputAssumption DEF Init, Descends
<1>2. Descends /\ [Next]_vars => Descends'
  BY NextDescends
<1>3. Descends /\ [Next]_vars
        => [un' # un => \/ Kind(un') < Kind(un)
                        \/ Kind(un') = Kind(un) /\ unit_type_count(un') < unit_type_count(un)]_vars
  BY NextDescends DEF Below
<1> QED  BY <1>1, <1>2, <1>3, PTL DEF Spec, CallsAreSmaller
=============================================================================
