---------------------- MODULE UnitsAndMeasurements_proof ----------------------
(***************************************************************************)
(* What the properties of UnitAlgebra rest on, for every set of base       *)
(* units, every choice of field widths, every set of operands and powers;  *)
(* and those of Measurement, for every set of units, values and bases.     *)
(***************************************************************************)
EXTENDS UnitAlgebra, Measurement, UnitData_proof, TLAPS

USE HalfAssumption, SecondAssumption

\* A quotient is no further from zero than what is divided, and half as far
\* when the divisor is at least two and leaves no remainder.
LEMMA QuotientBounds ==
  ASSUME NEW x \in Int, NEW m \in Int, m >= 1
  PROVE  /\ x \div m \in Int
         /\ x >= 0 => 0 <= x \div m /\ x \div m <= x
         /\ x < 0 => x <= x \div m /\ x \div m <= 0
         /\ x < 0 /\ m >= 2 /\ x % m = 0 => x <= 2 * (x \div m)
<1> DEFINE q == x \div m
           r == x % m
<1>1. q \in Int /\ r \in Int /\ x = m * q + r /\ 0 <= r /\ r < m
  OBVIOUS
<1> HIDE DEF q, r
<1>2. x >= 0 => 0 <= q /\ q <= x
  <2>1. CASE q < 0
    <3>1. m * q <= -m  BY <1>1, <2>1
    <3> QED  BY <1>1, <3>1
  <2>2. CASE q >= 0
    <3>1. m * q >= q  BY <1>1, <2>2
    <3> QED  BY <1>1, <2>2, <3>1
  <2> QED  BY <1>1, <2>1, <2>2
<1>3. x < 0 => x <= q /\ q <= 0
  <2>1. CASE q >= 1
    <3>1. m * q >= m  BY <1>1, <2>1
    <3> QED  BY <1>1, <3>1
  <2>2. CASE q <= 0
    <3>1. m * q <= q  BY <1>1, <2>2
    <3>2. CASE q = 0
      BY <1>1, <3>2
    <3>3. CASE q <= -1
      <4>1. m * q <= q - (m - 1)
        <5>1. (m - 1) * (q + 1) <= 0  BY <1>1, <3>3
        <5> QED  BY <1>1, <5>1
      <4> QED  BY <1>1, <3>3, <4>1
    <3> QED  BY <1>1, <2>2, <3>2, <3>3
  <2> QED  BY <1>1, <2>1, <2>2
<1>4. x < 0 /\ m >= 2 /\ r = 0 => x <= 2 * q
  <2> SUFFICES ASSUME x < 0, m >= 2, r = 0 PROVE x <= 2 * q
    OBVIOUS
  <2>1. (m - 2) * q <= 0  BY <1>1, <1>3
  <2> QED  BY <1>1, <2>1
<1> QED  BY <1>1, <1>2, <1>3, <1>4 DEF q, r

-----------------------------------------------------------------------------
(***************************************************************************)
(* The operators return precise_units whose exponents fit their fields.    *)
(***************************************************************************)
Typed(u) == u \in PreciseUnitType /\ InFields(u.base)

\* The constants of the library.
LEMMA ConstantsTyped ==
  Typed(one) /\ Typed(invalid) /\ ErrorData \in UnitDataType /\ InFields(ErrorData)
<1>1. \A b \in Base : MinVal(b) \in Int /\ MinVal(b) <= 0 /\ 0 <= MaxVal(b)
                      /\ MinVal(b) <= MaxVal(b)
  BY DEF MinVal, MaxVal
<1>2. ErrorData \in UnitDataType /\ InFields(ErrorData)
  BY <1>1 DEF ErrorData, UnitDataType, InFields
<1>3. Dimensionless \in UnitDataType /\ InFields(Dimensionless)
  BY <1>1 DEF Dimensionless, UnitDataType, InFields
<1> QED
  BY <1>2, <1>3
  DEF Typed, one, invalid, precise_unit, PreciseUnitType, Multiplier

\* Multiplication, division, inversion and powers.
LEMMA ArithmeticTyped ==
  ASSUME NEW u, NEW v, NEW n \in Int, Typed(u), Typed(v)
  PROVE  /\ Typed(UnitTimes(u, v))
         /\ Typed(UnitDivides(u, v))
         /\ Typed(UnitInv(u))
         /\ Typed(UnitPow(u, n))
<1>1. /\ u.base \in UnitDataType /\ v.base \in UnitDataType
      /\ u.base.exp \in [Base -> Int] /\ v.base.exp \in [Base -> Int]
      /\ u.base.flags \in SUBSET Flag /\ v.base.flags \in SUBSET Flag
      /\ u.commodity \in SUBSET CommodityBits
      /\ v.commodity \in SUBSET CommodityBits
      /\ u.mult \in Multiplier /\ v.mult \in Multiplier
  BY DEF Typed, PreciseUnitType, UnitDataType
<1>2. Times(u.base, v.base) \in UnitDataType /\ InFields(Times(u.base, v.base))
  <2>1. [b \in Base |-> u.base.exp[b] + v.base.exp[b]] \in [Base -> Int]
    BY <1>1
  <2>2. XorOn({"i_flag"}, u.base.flags, v.base.flags) \in SUBSET Flag
    BY <1>1 DEF XorOn, Xor
  <2> QED  BY <2>1, <2>2, StoreTyped DEF Times
<1>3. Divides(u.base, v.base) \in UnitDataType /\ InFields(Divides(u.base, v.base))
  <2>1. [b \in Base |-> u.base.exp[b] - v.base.exp[b]] \in [Base -> Int]
    BY <1>1
  <2>2. XorOn({"i_flag", "e_flag"}, u.base.flags, v.base.flags) \in SUBSET Flag
    BY <1>1 DEF XorOn, Xor
  <2> QED  BY <2>1, <2>2, StoreTyped DEF Divides
<1>4. Inv(u.base) \in UnitDataType /\ InFields(Inv(u.base))
  <2>1. [b \in Base |-> -u.base.exp[b]] \in [Base -> Int]
    BY <1>1
  <2> QED  BY <1>1, <2>1, StoreTyped DEF Inv
<1>5. Pow(u.base, n) \in UnitDataType /\ InFields(Pow(u.base, n))
  <2>1. rootHertzModifier(u.base, n) \in Int
    BY <1>1 DEF rootHertzModifier
  <2>2. PowExponents(u.base, n) \in [Base -> Int]
    BY <1>1, <2>1 DEF PowExponents
  <2>3. PowFlags(u.base.flags, n) \in SUBSET Flag
    BY <1>1 DEF PowFlags
  <2> QED  BY <2>2, <2>3, StoreTyped DEF Pow
<1>6. /\ TimesMult(u.mult, v.mult) \in Multiplier
      /\ power_const(u.mult, n) \in Multiplier
  BY <1>1 DEF TimesMult, power_const, Multiplier
<1>7. /\ u.commodity \cup v.commodity \in SUBSET CommodityBits
      /\ DividesCommodity(u.commodity, v.commodity) \in SUBSET CommodityBits
      /\ InvCommodity(u.commodity) \in SUBSET CommodityBits
  BY <1>1 DEF DividesCommodity, InvCommodity
<1>8. Typed(UnitTimes(u, v))
  BY <1>2, <1>6, <1>7 DEF Typed, UnitTimes, precise_unit, PreciseUnitType
<1>9. Typed(UnitDivides(u, v))
  BY <1>3, <1>6, <1>7 DEF Typed, UnitDivides, precise_unit, PreciseUnitType
<1>10. Typed(UnitInv(u))
  BY <1>1, <1>4, <1>7 DEF Typed, UnitInv, precise_unit, PreciseUnitType
<1>11. Typed(UnitPow(u, n))
  BY <1>1, <1>5, <1>6 DEF Typed, UnitPow, precise_unit, PreciseUnitType
<1> QED  BY <1>8, <1>9, <1>10, <1>11

\* Roots, valid and invalid.
LEMMA RootTyped ==
  ASSUME NEW u, NEW n \in Int, Typed(u)
  PROVE  Typed(UnitRoot(u, n))
<1>1. /\ u.base \in UnitDataType
      /\ u.base.exp \in [Base -> Int]
      /\ u.base.flags \in SUBSET Flag
      /\ u.mult \in Multiplier
  BY DEF Typed, PreciseUnitType, UnitDataType
<1>2. CASE n = 0
  BY <1>2, ConstantsTyped DEF UnitRoot
<1>3. CASE n # 0 /\ u.mult = "neg" /\ IsEven(n)
  BY <1>3, ConstantsTyped DEF UnitRoot
<1>4. CASE n # 0 /\ ~(u.mult = "neg" /\ IsEven(n))
  <2>1. Root(u.base, n) \in UnitDataType /\ InFields(Root(u.base, n))
    <3>1. CASE hasValidRoot(u.base, n)
      <4>1. [b \in Base |-> ExactQuotient(u.base.exp[b], n)] \in [Base -> Int]
        BY <1>1, <1>4 DEF ExactQuotient
      <4>2. u.base.flags \ (IF IsEven(n) THEN {"i_flag", "equation"}
                                          ELSE {"equation"}) \in SUBSET Flag
        BY <1>1
      <4> QED  BY <3>1, <4>1, <4>2, StoreTyped DEF Root
    <3>2. CASE ~hasValidRoot(u.base, n)
      BY <3>2, ConstantsTyped DEF Root
    <3> QED  BY <3>1, <3>2
  <2>2. numericalRoot(u.mult, n) \in Multiplier
    BY <1>1 DEF numericalRoot, Multiplier
  <2> QED
    BY <1>4, <2>1, <2>2 DEF Typed, UnitRoot, precise_unit, PreciseUnitType
<1> QED  BY <1>2, <1>3, <1>4

-----------------------------------------------------------------------------
(***************************************************************************)
(* What the predicates of units_util.hpp say: when none of them reports an *)
(* overflow, the result fits every field.                                  *)
(***************************************************************************)
Fits(e) == \A b \in Base : MinVal(b) <= e[b] /\ e[b] <= MaxVal(b)

\* plus_overflows and minus_overflows are exact: they report an overflow when
\* the sum or the difference leaves the field, and only then.
LEMMA BitfieldPredicates ==
  ASSUME NEW b \in Base, NEW x \in Int, NEW y \in Int,
         MinVal(b) <= x, x <= MaxVal(b)
  PROVE  /\ plus_overflows(b, x, y)
              <=> ~(MinVal(b) <= x + y /\ x + y <= MaxVal(b))
         /\ minus_overflows(b, x, y)
              <=> ~(MinVal(b) <= x - y /\ x - y <= MaxVal(b))
<1>1. MinVal(b) \in Int /\ MaxVal(b) \in Int
  BY DEF MinVal, MaxVal
<1> QED  BY <1>1 DEF plus_overflows, minus_overflows

\* times_overflows, divides_overflows, inv_overflows and, away from square
\* roots of hertz, pow_overflows report exactly the operations whose exponents
\* over the integers do not fit.
THEOREM PredicatesAreExact ==
  ASSUME NEW u, NEW v, NEW n \in Int, Typed(u), Typed(v)
  PROVE  /\ times_overflows(u.base, v.base)
              <=> ~Fits([b \in Base |-> u.base.exp[b] + v.base.exp[b]])
         /\ divides_overflows(u.base, v.base)
              <=> ~Fits([b \in Base |-> u.base.exp[b] - v.base.exp[b]])
         /\ inv_overflows(u.base) <=> ~Fits([b \in Base |-> -u.base.exp[b]])
         /\ pow_overflows(u.base, n) <=> ~Fits([b \in Base |-> u.base.exp[b] * n])
<1> DEFINE f == u.base.exp
           g == v.base.exp
<1>1. f \in [Base -> Int] /\ g \in [Base -> Int]
  BY DEF Typed, PreciseUnitType, UnitDataType
<1>2. \A b \in Base : f[b] \in Int /\ g[b] \in Int
  BY <1>1
<1>3. \A b \in Base : MinVal(b) <= f[b] /\ f[b] <= MaxVal(b)
  BY DEF Typed, InFields
<1>4. Dimensionless.exp = [b \in Base |-> 0]
  BY DEF Dimensionless
<1> HIDE DEF f, g
<1>5. \A b \in Base : plus_overflows(b, f[b], g[b])
                       <=> ~(MinVal(b) <= f[b] + g[b] /\ f[b] + g[b] <= MaxVal(b))
  BY <1>2, <1>3, BitfieldPredicates
<1>6. \A b \in Base : minus_overflows(b, f[b], g[b])
                       <=> ~(MinVal(b) <= f[b] - g[b] /\ f[b] - g[b] <= MaxVal(b))
  BY <1>2, <1>3, BitfieldPredicates
<1>7. \A b \in Base : minus_overflows(b, 0, f[b])
                       <=> ~(MinVal(b) <= -f[b] /\ -f[b] <= MaxVal(b))
  <2> TAKE b \in Base
  <2>1. f[b] \in Int /\ 0 \in Int /\ MinVal(b) <= 0 /\ 0 <= MaxVal(b)
    BY <1>2 DEF MinVal, MaxVal
  <2>2. minus_overflows(b, 0, f[b])
          <=> ~(MinVal(b) <= 0 - f[b] /\ 0 - f[b] <= MaxVal(b))
    BY <2>1, BitfieldPredicates
  <2>3. 0 - f[b] = -f[b]
    BY <2>1
  <2> QED  BY <2>2, <2>3
<1>8. \A b \in Base : bits_times_overflows(b, f[b], n)
                       <=> ~(MinVal(b) <= f[b] * n /\ f[b] * n <= MaxVal(b))
  <2> TAKE b \in Base
  <2>1. f[b] * n \in Int /\ MinVal(b) \in Int /\ MaxVal(b) \in Int
    BY <1>2 DEF MinVal, MaxVal
  <2> HIDE HalfAssumption, SecondAssumption
  <2> QED  BY <2>1 DEF bits_times_overflows
<1>9. /\ times_overflows(u.base, v.base) <=> \E b \in Base : plus_overflows(b, f[b], g[b])
      /\ divides_overflows(u.base, v.base)
           <=> \E b \in Base : minus_overflows(b, f[b], g[b])
      /\ pow_overflows(u.base, n) <=> \E b \in Base : bits_times_overflows(b, f[b], n)
      /\ inv_overflows(u.base) <=> \E b \in Base : minus_overflows(b, 0, f[b])
  BY <1>4 DEF times_overflows, divides_overflows, pow_overflows, inv_overflows, f, g
<1>10. /\ Fits([b \in Base |-> f[b] + g[b]])
            <=> \A b \in Base : MinVal(b) <= f[b] + g[b] /\ f[b] + g[b] <= MaxVal(b)
       /\ Fits([b \in Base |-> f[b] - g[b]])
            <=> \A b \in Base : MinVal(b) <= f[b] - g[b] /\ f[b] - g[b] <= MaxVal(b)
       /\ Fits([b \in Base |-> -f[b]])
            <=> \A b \in Base : MinVal(b) <= -f[b] /\ -f[b] <= MaxVal(b)
       /\ Fits([b \in Base |-> f[b] * n])
            <=> \A b \in Base : MinVal(b) <= f[b] * n /\ f[b] * n <= MaxVal(b)
  BY DEF Fits
<1>11. times_overflows(u.base, v.base) <=> ~Fits([b \in Base |-> f[b] + g[b]])
  BY <1>5, <1>9, <1>10
<1>12. divides_overflows(u.base, v.base) <=> ~Fits([b \in Base |-> f[b] - g[b]])
  BY <1>6, <1>9, <1>10
<1>13. inv_overflows(u.base) <=> ~Fits([b \in Base |-> -f[b]])
  BY <1>7, <1>9, <1>10
<1>14. pow_overflows(u.base, n) <=> ~Fits([b \in Base |-> f[b] * n])
  BY <1>8, <1>9, <1>10
<1> QED  BY <1>11, <1>12, <1>13, <1>14 DEF f, g

-----------------------------------------------------------------------------
(***************************************************************************)
(* The invariant.  Its three parts are inductive together: what a checked  *)
(* step stores is exact because the register was, and wraps the exact      *)
(* exponents because the register did.                                     *)
(***************************************************************************)
IInv == TypeOK /\ WrapsToExact /\ CheckedIsExact

\* A step of the recorded calculation.
LEMMA ComputeInv ==
  ASSUME IInv, NEW u, NEW e \in [Base -> Int], NEW overflows \in BOOLEAN,
         Typed(u), \A b \in Base : u.base.exp[b] = Wrap(b, e[b]),
         checked /\ ~overflows => Fits(e),
         Compute(u, e, overflows)
  PROVE  IInv'
<1>1. reg' = u /\ exact' = e /\ checked' = (checked /\ ~overflows)
  BY DEF Compute
<1>2. checked \in BOOLEAN
  BY DEF IInv, TypeOK
<1>3. TypeOK'
  BY <1>1, <1>2 DEF TypeOK, Typed
<1>4. WrapsToExact'
  BY <1>1 DEF WrapsToExact
<1>5. CheckedIsExact'
  <2> SUFFICES ASSUME checked, ~overflows PROVE u.base.exp = e
    BY <1>1 DEF CheckedIsExact
  <2>1. u.base.exp \in [Base -> Int]
    BY DEF Typed, PreciseUnitType, UnitDataType
  <2>2. \A b \in Base : u.base.exp[b] = e[b]
    BY WrapFits DEF Fits
  <2> QED  BY <2>1, <2>2
<1> QED  BY <1>3, <1>4, <1>5 DEF IInv

\* A step that starts the record again from the register.
LEMMA RestartInv ==
  ASSUME NEW u, Typed(u), reg' = u, exact' = u.base.exp, checked' \in BOOLEAN
  PROVE  IInv'
<1>1. u.base.exp \in [Base -> Int]
  BY DEF Typed, PreciseUnitType, UnitDataType
<1>2. \A b \in Base : u.base.exp[b] = Wrap(b, u.base.exp[b])
  BY <1>1, WrapFits DEF Typed, InFields
<1> QED  BY <1>1, <1>2 DEF IInv, TypeOK, WrapsToExact, CheckedIsExact, Typed

\* The initial state.
LEMMA InitInv == Init => IInv
<1> SUFFICES ASSUME Init PROVE IInv
  OBVIOUS
<1>1. Typed(one) /\ one.base.exp \in [Base -> Int]
  BY ConstantsTyped DEF Typed, PreciseUnitType, UnitDataType
<1>2. \A b \in Base : one.base.exp[b] = Wrap(b, one.base.exp[b])
  BY <1>1, WrapFits DEF Typed, InFields
<1> QED
  BY <1>1, <1>2 DEF Init, IInv, TypeOK, WrapsToExact, CheckedIsExact, Typed

\* Multiplication: the sum of what is stored wraps like the exact sum.
LEMMA TimesInv ==
  ASSUME IInv, NEW u \in Operand, DoTimes(u)
  PROVE  IInv'
<1> DEFINE e == [b \in Base |-> exact[b] + u.base.exp[b]]
           r == [b \in Base |-> reg.base.exp[b] + u.base.exp[b]]
           o == times_overflows(reg.base, u.base)
           t == UnitTimes(reg, u)
<1>1. Typed(reg) /\ Typed(u)
  BY OperandAssumption DEF IInv, TypeOK, Typed
<1>2. /\ reg.base.exp \in [Base -> Int] /\ u.base.exp \in [Base -> Int]
      /\ exact \in [Base -> Int]
  BY <1>1 DEF IInv, TypeOK, Typed, PreciseUnitType, UnitDataType
<1>3. Typed(t)
  BY <1>1, 0 \in Int, ArithmeticTyped
<1>4. \A b \in Base : t.base.exp[b] = Wrap(b, reg.base.exp[b] + u.base.exp[b])
  BY DEF UnitTimes, Times, precise_unit, unit_data
<1>5. \A b \in Base : t.base.exp[b] = Wrap(b, e[b])
  <2> TAKE b \in Base
  <2>1. reg.base.exp[b] = Wrap(b, exact[b])
    BY DEF IInv, WrapsToExact
  <2>2. exact[b] \in Int /\ u.base.exp[b] \in Int
    BY <1>2
  <2>3. Wrap(b, Wrap(b, exact[b]) + u.base.exp[b]) = Wrap(b, exact[b] + u.base.exp[b])
    BY <2>2, WrapArithmetic
  <2> QED  BY <1>4, <2>1, <2>3
<1>6. checked /\ ~o => Fits(e)
  <2> SUFFICES ASSUME checked, ~o PROVE Fits(e)
    OBVIOUS
  <2>1. Fits(r)
    BY <1>1, 0 \in Int, PredicatesAreExact
  <2>2. reg.base.exp = exact
    BY DEF IInv, CheckedIsExact
  <2> QED  BY <2>1, <2>2
<1>7. e \in [Base -> Int] /\ o \in BOOLEAN
  BY <1>2 DEF times_overflows
<1>8. Compute(t, e, o)
  BY DEF DoTimes
<1> HIDE DEF e, r, o, t
<1> QED  BY <1>3, <1>5, <1>6, <1>7, <1>8, ComputeInv

\* Division.
LEMMA DividesInv ==
  ASSUME IInv, NEW u \in Operand, DoDivides(u)
  PROVE  IInv'
<1> DEFINE e == [b \in Base |-> exact[b] - u.base.exp[b]]
           r == [b \in Base |-> reg.base.exp[b] - u.base.exp[b]]
           o == divides_overflows(reg.base, u.base)
           t == UnitDivides(reg, u)
<1>1. Typed(reg) /\ Typed(u)
  BY OperandAssumption DEF IInv, TypeOK, Typed
<1>2. /\ reg.base.exp \in [Base -> Int] /\ u.base.exp \in [Base -> Int]
      /\ exact \in [Base -> Int]
  BY <1>1 DEF IInv, TypeOK, Typed, PreciseUnitType, UnitDataType
<1>3. Typed(t)
  BY <1>1, 0 \in Int, ArithmeticTyped
<1>4. \A b \in Base : t.base.exp[b] = Wrap(b, reg.base.exp[b] - u.base.exp[b])
  BY DEF UnitDivides, Divides, precise_unit, unit_data
<1>5. \A b \in Base : t.base.exp[b] = Wrap(b, e[b])
  <2> TAKE b \in Base
  <2>1. reg.base.exp[b] = Wrap(b, exact[b])
    BY DEF IInv, WrapsToExact
  <2>2. exact[b] \in Int /\ u.base.exp[b] \in Int
    BY <1>2
  <2>3. Wrap(b, Wrap(b, exact[b]) - u.base.exp[b]) = Wrap(b, exact[b] - u.base.exp[b])
    BY <2>2, WrapArithmetic
  <2> QED  BY <1>4, <2>1, <2>3
<1>6. checked /\ ~o => Fits(e)
  <2> SUFFICES ASSUME checked, ~o PROVE Fits(e)
    OBVIOUS
  <2>1. Fits(r)
    BY <1>1, 0 \in Int, PredicatesAreExact
  <2>2. reg.base.exp = exact
    BY DEF IInv, CheckedIsExact
  <2> QED  BY <2>1, <2>2
<1>7. e \in [Base -> Int] /\ o \in BOOLEAN
  BY <1>2 DEF divides_overflows
<1>8. Compute(t, e, o)
  BY DEF DoDivides
<1> HIDE DEF e, r, o, t
<1> QED  BY <1>3, <1>5, <1>6, <1>7, <1>8, ComputeInv

\* Inversion.
LEMMA InverseInv ==
  ASSUME IInv, DoInv
  PROVE  IInv'
<1> DEFINE e == [b \in Base |-> -exact[b]]
           r == [b \in Base |-> -reg.base.exp[b]]
           o == inv_overflows(reg.base)
           t == UnitInv(reg)
<1>1. Typed(reg)
  BY DEF IInv, TypeOK, Typed
<1>2. reg.base.exp \in [Base -> Int] /\ exact \in [Base -> Int]
  BY <1>1 DEF IInv, TypeOK, Typed, PreciseUnitType, UnitDataType
<1>3. Typed(t)
  BY <1>1, 0 \in Int, ArithmeticTyped
<1>4. \A b \in Base : t.base.exp[b] = Wrap(b, -reg.base.exp[b])
  BY DEF UnitInv, Inv, precise_unit, unit_data
<1>5. \A b \in Base : t.base.exp[b] = Wrap(b, e[b])
  <2> TAKE b \in Base
  <2>1. reg.base.exp[b] = Wrap(b, exact[b])
    BY DEF IInv, WrapsToExact
  <2>2. exact[b] \in Int
    BY <1>2
  <2>3. Wrap(b, -Wrap(b, exact[b])) = Wrap(b, -exact[b])
    BY <2>2, WrapArithmetic
  <2> QED  BY <1>4, <2>1, <2>3
<1>6. checked /\ ~o => Fits(e)
  <2> SUFFICES ASSUME checked, ~o PROVE Fits(e)
    OBVIOUS
  <2>1. Fits(r)
    BY <1>1, 0 \in Int, PredicatesAreExact
  <2>2. reg.base.exp = exact
    BY DEF IInv, CheckedIsExact
  <2> QED  BY <2>1, <2>2
<1>7. e \in [Base -> Int] /\ o \in BOOLEAN
  BY <1>2 DEF inv_overflows, divides_overflows
<1>8. Compute(t, e, o)
  BY DEF DoInv
<1> HIDE DEF e, r, o, t
<1> QED  BY <1>3, <1>5, <1>6, <1>7, <1>8, ComputeInv

\* Powers.
LEMMA PowInv ==
  ASSUME IInv, NEW n \in Power, DoPow(n)
  PROVE  IInv'
<1> DEFINE e == [b \in Base |-> exact[b] * n]
           r == [b \in Base |-> reg.base.exp[b] * n]
           o == pow_overflows(reg.base, n)
           t == UnitPow(reg, n)
<1>0. n \in Int
  BY PowerAssumption
<1>1. Typed(reg)
  BY DEF IInv, TypeOK, Typed
<1>2. reg.base.exp \in [Base -> Int] /\ exact \in [Base -> Int]
  BY <1>1 DEF IInv, TypeOK, Typed, PreciseUnitType, UnitDataType
<1>3. Typed(t)
  BY <1>0, <1>1, ArithmeticTyped
<1>a. CASE rootHertzModifier(reg.base, n) # 0
  <2>1. /\ reg' = t /\ exact' = t.base.exp /\ checked' = FALSE
    BY <1>a DEF DoPow, Restart
  <2> HIDE DEF t
  <2> QED  BY <1>3, <2>1, RestartInv
<1>b. CASE rootHertzModifier(reg.base, n) = 0
  <2>4. \A b \in Base : t.base.exp[b] = Wrap(b, reg.base.exp[b] * n)
    <3>1. \A b \in Base : reg.base.exp[b] * n \in Int
      BY <1>0, <1>2
    <3>2. \A b \in Base : PowExponents(reg.base, n)[b] = reg.base.exp[b] * n
      <4> TAKE b \in Base
      <4>1. PowExponents(reg.base, n)[b]
              = reg.base.exp[b] * n
                  + (IF b = Second THEN rootHertzModifier(reg.base, n) ELSE 0)
        BY DEF PowExponents
      <4>2. (IF b = Second THEN rootHertzModifier(reg.base, n) ELSE 0) = 0
        BY <1>b
      <4> DEFINE x == reg.base.exp[b] * n
      <4>3. x \in Int
        BY <3>1
      <4> HIDE DEF x
      <4>4. x + 0 = x
        BY <4>3
      <4> QED  BY <4>1, <4>2, <4>4 DEF x
    <3> QED  BY <3>2 DEF UnitPow, Pow, precise_unit, unit_data
  <2>5. \A b \in Base : t.base.exp[b] = Wrap(b, e[b])
    <3> TAKE b \in Base
    <3>1. reg.base.exp[b] = Wrap(b, exact[b])
      BY DEF IInv, WrapsToExact
    <3>2. exact[b] \in Int
      BY <1>2
    <3>3. Wrap(b, Wrap(b, exact[b]) * n) = Wrap(b, exact[b] * n)
      BY <1>0, <3>2, WrapArithmetic
    <3> QED  BY <2>4, <3>1, <3>3
  <2>6. checked /\ ~o => Fits(e)
    <3> SUFFICES ASSUME checked, ~o PROVE Fits(e)
      OBVIOUS
    <3>1. Fits(r)
      BY <1>0, <1>1, PredicatesAreExact
    <3>2. reg.base.exp = exact
      BY DEF IInv, CheckedIsExact
    <3> QED  BY <3>1, <3>2
  <2>7. e \in [Base -> Int] /\ o \in BOOLEAN
    BY <1>0, <1>2 DEF pow_overflows
  <2>8. Compute(t, e, o)
    BY <1>b DEF DoPow
  <2> HIDE DEF e, r, o, t
  <2> QED  BY <1>3, <2>5, <2>6, <2>7, <2>8, ComputeInv
<1> QED  BY <1>a, <1>b

\* An exact quotient of what fits a field fits it, but for dividing the least
\* value by -1.
LEMMA QuotientFits ==
  ASSUME NEW b \in Base, NEW x \in Int, NEW n \in Int, n # 0,
         MinVal(b) <= x, x <= MaxVal(b), x % Abs(n) = 0,
         n = -1 => -x <= MaxVal(b)
  PROVE  /\ MinVal(b) <= ExactQuotient(x, n)
         /\ ExactQuotient(x, n) <= MaxVal(b)
<1> DEFINE H == Half[b]
<1>1. /\ H \in Int /\ H >= 2
      /\ MinVal(b) = -H /\ MaxVal(b) = H - 1
  BY DEF MinVal, MaxVal
<1> HIDE DEF H
<1>2. CASE n > 0
  <2>1. ExactQuotient(x, n) = x \div n
    BY <1>2 DEF ExactQuotient
  <2>2. /\ x \div n \in Int
        /\ x >= 0 => 0 <= x \div n /\ x \div n <= x
        /\ x < 0 => x <= x \div n /\ x \div n <= 0
    BY <1>2, QuotientBounds
  <2> HIDE HalfAssumption
  <2> DEFINE q == x \div n
  <2>3. ExactQuotient(x, n) = q
    BY <2>1
  <2>4. /\ q \in Int
        /\ x >= 0 => 0 <= q /\ q <= x
        /\ x < 0 => x <= q /\ q <= 0
    BY <2>2
  <2> HIDE DEF q
  <2> QED  BY <1>1, <2>3, <2>4
<1>3. CASE n < 0
  <2> DEFINE m == -n
             q == x \div m
  <2>1. m \in Int /\ m >= 1 /\ Abs(n) = m /\ (m = 1 => n = -1)
    BY <1>3 DEF Abs
  <2>2. ExactQuotient(x, n) = -q
    BY <1>3 DEF ExactQuotient
  <2>3. x % m = 0
    BY <2>1
  <2> HIDE DEF m
  <2>4. /\ q \in Int
        /\ x >= 0 => 0 <= q /\ q <= x
        /\ x < 0 => x <= q /\ q <= 0
        /\ x < 0 /\ m >= 2 => x <= 2 * q
    BY <2>1, <2>3, QuotientBounds
  <2>5. m = 1 => q = x
    BY <2>1
  <2> HIDE DEF q
  <2>6. CASE m = 1
    BY <1>1, <2>1, <2>2, <2>4, <2>5, <2>6
  <2>7. CASE m >= 2
    BY <1>1, <2>1, <2>2, <2>4, <2>7
  <2> QED  BY <2>1, <2>6, <2>7
<1> QED  BY <1>2, <1>3

\* Roots.
LEMMA RootInv ==
  ASSUME IInv, NEW n \in Power, DoRoot(n)
  PROVE  IInv'
<1> DEFINE e == [b \in Base |-> ExactQuotient(exact[b], n)]
           o == n = -1 /\ inv_overflows(reg.base)
           t == UnitRoot(reg, n)
           valid == /\ checked /\ n # 0 /\ ~(reg.mult = "neg" /\ IsEven(n))
                    /\ hasValidRoot(reg.base, n)
<1>0. n \in Int
  BY PowerAssumption
<1>1. Typed(reg)
  BY DEF IInv, TypeOK, Typed
<1>2. reg.base.exp \in [Base -> Int] /\ exact \in [Base -> Int]
  BY <1>1 DEF IInv, TypeOK, Typed, PreciseUnitType, UnitDataType
<1>3. Typed(t)
  BY <1>0, <1>1, RootTyped
<1>a. CASE ~valid
  <2>1. reg' = t /\ exact' = t.base.exp /\ checked' = FALSE
    BY <1>a DEF DoRoot, Restart
  <2> HIDE DEF t
  <2> QED  BY <1>3, <2>1, RestartInv
<1>b. CASE valid
  <2>1. reg.base.exp = exact
    BY <1>b DEF IInv, CheckedIsExact
  <2>2. \A b \in Base : t.base.exp[b] = Wrap(b, e[b])
    BY <1>b, <2>1 DEF UnitRoot, Root, precise_unit, unit_data
  <2>3. e \in [Base -> Int] /\ o \in BOOLEAN
    <3>1. \A b \in Base : ExactQuotient(exact[b], n) \in Int
      BY <1>0, <1>2, <1>b DEF ExactQuotient
    <3> QED  BY <3>1
  <2>4. checked /\ ~o => Fits(e)
    <3> SUFFICES ASSUME ~o, NEW b \in Base
                 PROVE  MinVal(b) <= e[b] /\ e[b] <= MaxVal(b)
      BY DEF Fits
    <3> DEFINE x == reg.base.exp[b]
    <3>1. x \in Int /\ MinVal(b) <= x /\ x <= MaxVal(b)
      BY <1>1, <1>2 DEF Typed, InFields
    <3>2. x % Abs(n) = 0
      BY <1>b DEF hasValidRoot
    <3>3. n = -1 => -x <= MaxVal(b)
      <4> SUFFICES ASSUME n = -1 PROVE -x <= MaxVal(b)
        OBVIOUS
      <4>1. Fits([c \in Base |-> -reg.base.exp[c]])
        BY <1>1, 0 \in Int, PredicatesAreExact
      <4> QED  BY <4>1 DEF Fits
    <3>4. e[b] = ExactQuotient(x, n)
      BY <2>1
    <3> HIDE DEF e, x
    <3> QED  BY <1>0, <1>b, <3>1, <3>2, <3>3, <3>4, QuotientFits
  <2>5. Compute(t, e, o)
    BY <1>b DEF DoRoot
  <2> HIDE DEF e, o, t
  <2> QED  BY <1>3, <2>2, <2>3, <2>4, <2>5, ComputeInv
<1> QED  BY <1>a, <1>b

\* The setters of the flags and of the commodity.
LEMMA ReflagInv ==
  ASSUME IInv, NEW flags \in SUBSET Flag, Reflag(flags)
  PROVE  IInv'
<1>1. /\ reg \in PreciseUnitType /\ InFields(reg.base)
      /\ exact \in [Base -> Int] /\ checked \in BOOLEAN
  BY DEF IInv, TypeOK
<1>2. reg' = [reg EXCEPT !.base.flags = flags] /\ exact' = exact /\ checked' = checked
  BY DEF Reflag, UnitWithFlags
<1>3. /\ reg' \in PreciseUnitType
      /\ reg'.base.exp = reg.base.exp
  BY <1>1, <1>2 DEF PreciseUnitType, UnitDataType
<1>4. InFields(reg'.base)
  BY <1>1, <1>3 DEF InFields
<1> QED
  BY <1>1, <1>2, <1>3, <1>4 DEF IInv, TypeOK, WrapsToExact, CheckedIsExact

\* A commodity code replaces another without touching the exponents.
LEMMA SetCommodityInv ==
  ASSUME IInv, NEW c \in SUBSET CommodityBits, SetCommodity(c)
  PROVE  IInv'
<1>1. reg \in PreciseUnitType
  BY DEF IInv, TypeOK
<1>2. reg' \in PreciseUnitType /\ reg'.base = reg.base
  BY <1>1 DEF SetCommodity, PreciseUnitType
<1> QED
  BY <1>2 DEF SetCommodity, IInv, TypeOK, WrapsToExact, CheckedIsExact, InFields

\* Every step keeps the invariant.
LEMMA NextInv == IInv /\ [Next]_vars => IInv'
<1> SUFFICES ASSUME IInv, [Next]_vars PROVE IInv'
  OBVIOUS
<1>1. ASSUME NEW u \in Operand, Load(u) PROVE IInv'
  <2>1. Typed(u)
    BY OperandAssumption DEF Typed
  <2> QED  BY <1>1, <2>1, RestartInv DEF Load
<1>2. ASSUME NEW u \in Operand, DoTimes(u) PROVE IInv'
  BY <1>2, TimesInv
<1>3. ASSUME NEW u \in Operand, DoDivides(u) PROVE IInv'
  BY <1>3, DividesInv
<1>4. CASE DoInv
  BY <1>4, InverseInv
<1>5. ASSUME NEW n \in Power, DoPow(n) PROVE IInv'
  BY <1>5, PowInv
<1>6. ASSUME NEW n \in Power, DoRoot(n) PROVE IInv'
  BY <1>6, RootInv
<1>7. reg.base.flags \in SUBSET Flag
  BY DEF IInv, TypeOK, PreciseUnitType, UnitDataType
<1>8. ASSUME NEW flags \in SUBSET SettableFlag, set_flags(flags) PROVE IInv'
  BY <1>7, <1>8, ReflagInv DEF set_flags, SettableFlag
<1>9. CASE clear_flags
  BY <1>9, ReflagInv DEF clear_flags
<1>10. ASSUME NEW f \in SettableFlag, add_flag(f) \/ clear_flag(f) PROVE IInv'
  BY <1>7, <1>10, ReflagInv DEF add_flag, clear_flag, SettableFlag
<1>11. ASSUME NEW c \in SUBSET CommodityBits, SetCommodity(c) PROVE IInv'
  BY <1>11, SetCommodityInv
<1>12. CASE UNCHANGED vars
  BY <1>12 DEF vars, IInv, TypeOK, WrapsToExact, CheckedIsExact, InFields
<1> QED
  BY <1>1, <1>2, <1>3, <1>4, <1>5, <1>6, <1>8, <1>9, <1>10, <1>11, <1>12 DEF Next

\* The invariant holds in every reachable state.
THEOREM Invariance == Spec => []IInv
<1> QED  BY InitInv, NextInv, PTL DEF Spec

-----------------------------------------------------------------------------
(***************************************************************************)
(* The properties.                                                         *)
(***************************************************************************)

\* Every reachable register is a precise_unit whose exponents fit its fields.
THEOREM TypeCorrect == Spec => []TypeOK
<1>1. IInv => TypeOK
  BY DEF IInv
<1> QED  BY <1>1, Invariance, PTL

\* The fields always hold the exact exponents modulo the sizes of the fields,
\* whatever overflowed on the way.
THEOREM Wrapping == Spec => []WrapsToExact
<1>1. IInv => WrapsToExact
  BY DEF IInv
<1> QED  BY <1>1, Invariance, PTL

\* A calculation that asked the predicates of units_util.hpp before every step
\* and was never told of an overflow is exact.
THEOREM CheckedCalculation == Spec => []CheckedIsExact
<1>1. IInv => CheckedIsExact
  BY DEF IInv
<1> QED  BY <1>1, Invariance, PTL

\* Dividing by what was multiplied by restores exponents that overflowed.
LEMMA CancelExponents ==
  ASSUME NEW u, NEW v, Typed(u), Typed(v)
  PROVE  UnitDivides(UnitTimes(u, v), v).base.exp = u.base.exp
<1> DEFINE f == u.base.exp
           g == v.base.exp
           back == UnitDivides(UnitTimes(u, v), v).base.exp
<1>1. f \in [Base -> Int] /\ g \in [Base -> Int]
  BY DEF Typed, PreciseUnitType, UnitDataType
<1>2. back = [b \in Base |-> Wrap(b, Wrap(b, f[b] + g[b]) - g[b])]
  BY DEF UnitDivides, UnitTimes, Divides, Times, precise_unit, unit_data
<1>3. \A b \in Base : MinVal(b) <= f[b] /\ f[b] <= MaxVal(b)
  BY DEF Typed, InFields
<1> HIDE DEF f, g, back
<1>4. \A b \in Base : Wrap(b, Wrap(b, f[b] + g[b]) - g[b]) = f[b]
  <2> TAKE b \in Base
  <2>1. f[b] \in Int /\ g[b] \in Int /\ f[b] + g[b] \in Int
    BY <1>1
  <2>2. Wrap(b, Wrap(b, f[b] + g[b]) - g[b]) = Wrap(b, (f[b] + g[b]) - g[b])
    BY <2>1, WrapArithmetic
  <2>3. (f[b] + g[b]) - g[b] = f[b]
    BY <2>1
  <2> QED  BY <1>3, <2>1, <2>2, <2>3, WrapFits
<1>5. back = f
  BY <1>1, <1>2, <1>4
<1> QED  BY <1>5 DEF f, back

\* A product divided by one of its factors: exponents, commodity and flags.
THEOREM Cancellation == Spec => []TimesThenDividesCancels
<1>1. IInv => TimesThenDividesCancels
  <2> SUFFICES ASSUME IInv, NEW u \in Operand
               PROVE  LET back == UnitDivides(UnitTimes(reg, u), u)
                      IN  /\ back.base.exp = reg.base.exp
                          /\ reg.commodity \cap u.commodity = {} =>
                                back.commodity = reg.commodity
                          /\ "e_flag" \notin reg.base.flags \cap u.base.flags =>
                                back.base.flags \cap RootHertzFlags
                                  = reg.base.flags \cap RootHertzFlags
    BY DEF TimesThenDividesCancels
  <2> DEFINE back == UnitDivides(UnitTimes(reg, u), u)
  <2>1. Typed(reg) /\ Typed(u)
    BY OperandAssumption DEF IInv, TypeOK, Typed
  <2>2. back.base.exp = reg.base.exp
    BY <2>1, CancelExponents
  <2>3. reg.commodity \cap u.commodity = {} => back.commodity = reg.commodity
    <3>1. back.commodity = DividesCommodity(reg.commodity \cup u.commodity, u.commodity)
      BY DEF UnitDivides, UnitTimes, precise_unit
    <3> QED  BY <3>1 DEF DividesCommodity, InvCommodity
  <2>4. "e_flag" \notin reg.base.flags \cap u.base.flags =>
          back.base.flags \cap RootHertzFlags = reg.base.flags \cap RootHertzFlags
    <3>1. back.base.flags = XorOn({"i_flag", "e_flag"},
                                  XorOn({"i_flag"}, reg.base.flags, u.base.flags),
                                  u.base.flags)
      BY DEF UnitDivides, UnitTimes, Divides, Times, precise_unit, unit_data
    <3> QED  BY <3>1 DEF XorOn, Xor, RootHertzFlags
  <2> QED  BY <2>2, <2>3, <2>4
<1> QED  BY <1>1, Invariance, PTL

\* NaN in the multiplier survives every step but a load and a zeroth power.
THEOREM NaNPropagates == Spec => NaNStays
<1>1. IInv /\ [Next]_vars =>
        [IsNaN(reg) => \/ IsNaN(reg')
                       \/ \E u \in Operand : Load(u)
                       \/ (0 \in Power /\ (DoPow(0) \/ DoRoot(0)))]_vars
  <2> SUFFICES ASSUME IInv, Next, IsNaN(reg),
                      ~\E u \in Operand : Load(u),
                      ~(0 \in Power /\ (DoPow(0) \/ DoRoot(0)))
               PROVE  IsNaN(reg')
    OBVIOUS
  <2>1. reg.mult = "nan"
    BY DEF IsNaN
  <2>2. ASSUME NEW u \in Operand, DoTimes(u) \/ DoDivides(u) PROVE IsNaN(reg')
    BY <2>1, <2>2
    DEF DoTimes, DoDivides, Compute, UnitTimes, UnitDivides, precise_unit,
        TimesMult, IsNaN
  <2>3. CASE DoInv
    BY <2>1, <2>3 DEF DoInv, Compute, UnitInv, precise_unit, IsNaN
  <2>4. ASSUME NEW n \in Power, DoPow(n) PROVE IsNaN(reg')
    <3>1. n # 0
      BY <2>4
    <3>2. power_const("nan", n) = "nan"
      BY <3>1 DEF power_const
    <3>3. reg' = UnitPow(reg, n)
      BY <2>4 DEF DoPow, Restart, Compute
    <3> QED  BY <2>1, <3>2, <3>3 DEF UnitPow, precise_unit, IsNaN
  <2>5. ASSUME NEW n \in Power, DoRoot(n) PROVE IsNaN(reg')
    <3>1. n # 0
      BY <2>5
    <3>2. numericalRoot("nan", n) = "nan"
      BY <3>1 DEF numericalRoot
    <3>3. reg' = UnitRoot(reg, n)
      BY <2>5 DEF DoRoot, Restart, Compute
    <3> QED  BY <2>1, <3>1, <3>2, <3>3 DEF UnitRoot, precise_unit, IsNaN
  <2>6. reg \in PreciseUnitType
    BY DEF IInv, TypeOK
  <2>7. ASSUME NEW flags, Reflag(flags) PROVE IsNaN(reg')
    BY <2>1, <2>6, <2>7 DEF Reflag, UnitWithFlags, PreciseUnitType, IsNaN
  <2>8. ASSUME NEW c \in SUBSET CommodityBits, SetCommodity(c) PROVE IsNaN(reg')
    BY <2>1, <2>6, <2>8 DEF SetCommodity, PreciseUnitType, IsNaN
  <2> QED
    BY <2>2, <2>3, <2>4, <2>5, <2>7, <2>8
    DEF Next, set_flags, clear_flags, add_flag, clear_flag
<1> QED  BY <1>1, Invariance, PTL DEF Spec, NaNStays

\* The least value of a field is its own negation and its own odd multiple.
LEMMA LeastValue ==
  ASSUME NEW b \in Base, NEW n \in Int, ~IsEven(n)
  PROVE  Wrap(b, MinVal(b) * n) = MinVal(b) /\ Wrap(b, -MinVal(b)) = MinVal(b)
<1>1. Half[b] \in Int /\ MinVal(b) = -Half[b] /\ MinVal(b) \in Int
      /\ MinVal(b) <= MinVal(b) /\ MinVal(b) <= MaxVal(b)
  BY DEF MinVal, MaxVal
<1>2. Wrap(b, MinVal(b)) = MinVal(b)
  BY <1>1, WrapFits
<1>3. PICK j \in Int : n = 2 * j + 1
  BY DEF IsEven
<1>4. Congruent(b, MinVal(b), MinVal(b) * n)
  <2>1. MinVal(b) * n = MinVal(b) + (-j) * (2 * Half[b])
    BY <1>1, <1>3
  <2> QED  BY <2>1 DEF Congruent
<1>5. Congruent(b, MinVal(b), -MinVal(b))
  <2>1. -MinVal(b) = MinVal(b) + 1 * (2 * Half[b])
    BY <1>1
  <2> QED  BY <2>1 DEF Congruent
<1>6. MinVal(b) * n \in Int /\ -MinVal(b) \in Int
  BY <1>1
<1> QED  BY <1>1, <1>2, <1>4, <1>5, <1>6, CongruentWrap

\* The error unit survives inversion, odd powers and every root.
THEOREM ErrorPropagates == Spec => ErrorStays
<1>1. [Next]_vars =>
        [/\ reg.base = ErrorData
         /\ \/ DoInv
            \/ \E n \in Power : \/ ~IsEven(n) /\ DoPow(n)
                                \/ n # 0 /\ DoRoot(n)
         => reg'.base = ErrorData]_vars
  <2> SUFFICES ASSUME reg.base = ErrorData,
                      \/ DoInv
                      \/ \E n \in Power : \/ ~IsEven(n) /\ DoPow(n)
                                          \/ n # 0 /\ DoRoot(n)
               PROVE  reg'.base = ErrorData
    OBVIOUS
  <2>1. CASE DoInv
    <3>1. reg'.base = Inv(ErrorData)
      BY <2>1 DEF DoInv, Compute, UnitInv, precise_unit
    <3>2. ~IsEven(1) /\ 1 \in Int
      BY DEF IsEven
    <3>3. \A b \in Base : Wrap(b, -MinVal(b)) = MinVal(b)
      BY <3>2, LeastValue
    <3> QED  BY <3>1, <3>3 DEF Inv, unit_data, ErrorData
  <2>2. ASSUME NEW n \in Power, ~IsEven(n), DoPow(n) PROVE reg'.base = ErrorData
    <3>0. n \in Int
      BY PowerAssumption
    <3>1. reg'.base = Pow(ErrorData, n)
      BY <2>2 DEF DoPow, Restart, Compute, UnitPow, precise_unit
    <3>2. rootHertzModifier(ErrorData, n) = 0
      BY <2>2 DEF rootHertzModifier
    <3>3. \A b \in Base : MinVal(b) * n + 0 = MinVal(b) * n
      BY <3>0 DEF MinVal
    <3>4. \A b \in Base : Wrap(b, MinVal(b) * n) = MinVal(b)
      BY <3>0, <2>2, LeastValue
    <3>5. \A b \in Base : PowExponents(ErrorData, n)[b] = MinVal(b) * n
      BY <3>2, <3>3 DEF PowExponents, ErrorData
    <3>6. PowFlags(Flag, n) = Flag
      BY <2>2 DEF PowFlags
    <3>7. ErrorData.flags = Flag
      BY DEF ErrorData
    <3>8. Pow(ErrorData, n)
            = [exp |-> [b \in Base |-> Wrap(b, PowExponents(ErrorData, n)[b])],
               flags |-> Flag]
      BY <3>6, <3>7 DEF Pow, unit_data
    <3> QED  BY <3>1, <3>4, <3>5, <3>8 DEF ErrorData
  <2>3. ASSUME NEW n \in Power, n # 0, DoRoot(n) PROVE reg'.base = ErrorData
    <3>1. ~hasValidRoot(reg.base, n)
      BY DEF hasValidRoot, ErrorData, Flag
    <3>2. reg' = UnitRoot(reg, n)
      BY <2>3, <3>1 DEF DoRoot, Restart
    <3> QED
      BY <2>3, <3>1, <3>2 DEF UnitRoot, Root, precise_unit, invalid
  <2> QED  BY <2>1, <2>2, <2>3
<1> QED  BY <1>1, PTL DEF Spec, ErrorStays

\* inv is the power of -1 and undoes itself, for every register.
THEOREM InverseLaws == Spec => []InvLaws
<1>1. IInv => InvLaws
  <2> SUFFICES ASSUME IInv PROVE InvLaws
    OBVIOUS
  <2> DEFINE x == reg.base.exp
  <2>1. /\ reg \in PreciseUnitType /\ x \in [Base -> Int] /\ reg.base.flags \in SUBSET Flag
        /\ \A b \in Base : Wrap(b, x[b]) = x[b]
    BY WrapFits DEF IInv, TypeOK, PreciseUnitType, UnitDataType, InFields
  <2>2. Inv(reg.base) = Pow(reg.base, -1)
    <3>1. ~IsEven(-1)
      BY DEF IsEven
    <3>2. /\ rootHertzModifier(reg.base, -1) = 0
          /\ PowFlags(reg.base.flags, -1) = reg.base.flags
      BY <3>1 DEF rootHertzModifier, PowFlags
    <3>3. \A b \in Base : PowExponents(reg.base, -1)[b] = -x[b]
      <4>1. \A y \in Int : y * (-1) + 0 = -y
        OBVIOUS
      <4>2. \A b \in Base : x[b] \in Int /\ PowExponents(reg.base, -1)[b] = x[b] * (-1) + 0
        BY <2>1, <3>2 DEF PowExponents
      <4> QED
        BY <4>1, <4>2
    <3>4. Pow(reg.base, -1) = [exp |-> [b \in Base |-> Wrap(b, PowExponents(reg.base, -1)[b])],
                               flags |-> reg.base.flags]
      BY <3>2 DEF Pow, unit_data
    <3>5. Inv(reg.base) = [exp |-> [b \in Base |-> Wrap(b, -x[b])], flags |-> reg.base.flags]
      BY DEF Inv, unit_data
    <3> QED
      BY <3>3, <3>4, <3>5
  <2>3. Inv(Inv(reg.base)) = reg.base
    <3>1. Inv(Inv(reg.base)) = [exp |-> [b \in Base |-> Wrap(b, -Wrap(b, -x[b]))],
                                flags |-> reg.base.flags]
      BY DEF Inv, unit_data
    <3>2. \A b \in Base : Wrap(b, -Wrap(b, -x[b])) = x[b]
      <4>0. \A y \in Int : -y \in Int /\ -(-y) = y
        OBVIOUS
      <4>1. \A b \in Base : -x[b] \in Int /\ -(-x[b]) = x[b]
        <5>1. \A b \in Base : x[b] \in Int
          BY <2>1
        <5> HIDE DEF x
        <5> QED
          BY <4>0, <5>1
      <4>2. \A b \in Base : Wrap(b, -Wrap(b, -x[b])) = Wrap(b, -(-x[b]))
        BY <4>1, WrapArithmetic
      <4> QED
        BY <2>1, <4>1, <4>2
    <3>3. [b \in Base |-> Wrap(b, -Wrap(b, -x[b]))] = x
      BY <2>1, <3>2
    <3>4. reg.base = [exp |-> x, flags |-> reg.base.flags]
      BY <2>1 DEF PreciseUnitType, UnitDataType
    <3> QED
      BY <3>1, <3>3, <3>4
  <2>4. reg.commodity # CommodityBits =>
          InvCommodity(InvCommodity(reg.commodity)) = reg.commodity
    <3>1. reg.commodity \subseteq CommodityBits
      BY <2>1 DEF PreciseUnitType
    <3> QED
      BY <3>1 DEF InvCommodity
  <2>5. UnitInv(UnitInv(reg)) = [mult |-> reg.mult, base |-> Inv(Inv(reg.base)),
                                 commodity |-> InvCommodity(InvCommodity(reg.commodity))]
    BY DEF UnitInv, precise_unit
  <2>6. reg = [mult |-> reg.mult, base |-> reg.base, commodity |-> reg.commodity]
    BY <2>1 DEF PreciseUnitType
  <2> QED
    BY <2>2, <2>3, <2>4, <2>5, <2>6 DEF InvLaws
<1> QED  BY <1>1, Invariance, PTL

\* Division is exact on multiples.
LEMMA MultipleQuotient ==
  ASSUME NEW x \in Int, NEW n \in Int, n # 0
  PROVE  (x * n) % Abs(n) = 0 /\ ExactQuotient(x * n, n) = x
<1> DEFINE m == Abs(n)
<1>1. m \in Int /\ m >= 1
  BY DEF Abs
<1> HIDE DEF m
<1>2. ASSUME NEW y \in Int PROVE (y * m) % m = 0 /\ (y * m) \div m = y
  <2> DEFINE q == (y * m) \div m
             r == (y * m) % m
  <2>1. q \in Int /\ r \in Int /\ y * m = m * q + r /\ 0 <= r /\ r < m
    BY <1>1
  <2> HIDE DEF q, r
  <2>2. m * (y - q) = r
    BY <1>1, <2>1
  <2>3. CASE y - q >= 1
    <3>1. m * (y - q) >= m
      BY <1>1, <2>1, <2>3
    <3> QED  BY <1>1, <2>1, <2>2, <3>1
  <2>4. CASE y - q <= -1
    <3>1. m * (y - q) <= -m
      BY <1>1, <2>1, <2>4
    <3> QED  BY <1>1, <2>1, <2>2, <3>1
  <2>5. CASE y - q = 0
    BY <1>1, <2>1, <2>2, <2>5 DEF q, r
  <2> QED
    BY <2>1, <2>3, <2>4, <2>5
<1>3. CASE n > 0
  <2>1. m = n
    BY <1>3 DEF m, Abs
  <2> QED
    BY <1>2, <1>3, <2>1 DEF m, ExactQuotient
<1>4. CASE n < 0
  <2>1. m = -n /\ x * n = (-x) * m /\ -x \in Int
    BY <1>4 DEF m, Abs
  <2>2. (x * n) % m = 0 /\ (x * n) \div m = -x
    BY <1>2, <2>1
  <2>3. ExactQuotient(x * n, n) = -((x * n) \div m)
    BY <1>4, <2>1 DEF ExactQuotient
  <2> QED
    BY <2>2, <2>3 DEF m
<1> QED  BY <1>3, <1>4

\* root(n) takes back pow(n) of every register whose power fits its fields.
THEOREM RootAfterPow == Spec => []RootUndoesPow
<1>1. IInv => RootUndoesPow
  <2> SUFFICES ASSUME IInv, NEW n \in Power \ {0}, ~pow_overflows(reg.base, n),
                      rootHertzModifier(reg.base, n) = 0, "equation" \notin reg.base.flags
               PROVE  Root(Pow(reg.base, n), n)
                        = [reg.base EXCEPT !.flags = PowFlags(reg.base.flags, n)]
    BY DEF RootUndoesPow
  <2> DEFINE x == reg.base.exp
             p == Pow(reg.base, n)
             flags == PowFlags(reg.base.flags, n)
  <2>1. /\ n \in Int /\ n # 0 /\ x \in [Base -> Int]
        /\ reg.base = [exp |-> x, flags |-> reg.base.flags]
        /\ \A b \in Base : Wrap(b, x[b]) = x[b]
    BY PowerAssumption, WrapFits DEF IInv, TypeOK, PreciseUnitType, UnitDataType, InFields
  <2>2. p.flags = flags /\ \A b \in Base : p.exp[b] = x[b] * n
    <3>1. ASSUME NEW b \in Base PROVE x[b] * n \in Int /\ Wrap(b, x[b] * n) = x[b] * n
      <4>1. x[b] * n \in Int /\ ~bits_times_overflows(b, x[b], n)
        BY <2>1 DEF pow_overflows
      <4>2. MinVal(b) \in Int /\ MaxVal(b) \in Int
        BY DEF MinVal, MaxVal
      <4>3. MinVal(b) <= x[b] * n /\ x[b] * n <= MaxVal(b)
        BY <4>1, <4>2 DEF bits_times_overflows
      <4> QED
        BY <4>1, <4>3, WrapFits
    <3>2. \A b \in Base : PowExponents(reg.base, n)[b] = x[b] * n
      <4>1. \A y \in Int : y + 0 = y
        OBVIOUS
      <4>2. \A b \in Base : PowExponents(reg.base, n)[b] = x[b] * n + 0
        BY <2>1 DEF PowExponents
      <4> QED
        BY <3>1, <4>1, <4>2
    <3>3. p = [exp |-> [b \in Base |-> Wrap(b, PowExponents(reg.base, n)[b])], flags |-> flags]
      BY DEF Pow, unit_data
    <3> QED
      BY <3>1, <3>2, <3>3
  <2>3. "equation" \notin flags /\ (IsEven(n) => "i_flag" \notin flags)
    BY DEF PowFlags, RootHertzFlags
  <2>4. \A b \in Base : p.exp[b] % Abs(n) = 0 /\ ExactQuotient(p.exp[b], n) = x[b]
    <3>1. ASSUME NEW b \in Base
          PROVE  (x[b] * n) % Abs(n) = 0 /\ ExactQuotient(x[b] * n, n) = x[b]
      <4>1. x[b] \in Int
        BY <2>1
      <4> QED
        BY <2>1, <4>1, MultipleQuotient
    <3> QED
      BY <2>2, <3>1
  <2>5. Root(p, n) = unit_data([b \in Base |-> ExactQuotient(p.exp[b], n)], flags)
    <3>1. hasValidRoot(p, n)
      BY <2>2, <2>3, <2>4 DEF hasValidRoot
    <3>2. flags \ (IF IsEven(n) THEN {"i_flag", "equation"} ELSE {"equation"}) = flags
      BY <2>3
    <3> QED
      BY <2>2, <3>1, <3>2 DEF Root
  <2>6. [b \in Base |-> Wrap(b, [d \in Base |-> ExactQuotient(p.exp[d], n)][b])] = x
    BY <2>1, <2>4
  <2>7. Root(p, n) = [exp |-> x, flags |-> flags]
    BY <2>5, <2>6 DEF unit_data
  <2> QED
    BY <2>1, <2>7
<1> QED  BY <1>1, Invariance, PTL

-----------------------------------------------------------------------------
(***************************************************************************)
(* Powers are repeated products.                                           *)
(***************************************************************************)

\* What n factors u multiply to: as a power, but that no flag is dropped for
\* looking like a square root of hertz.
Product(u, n) ==
  [mult |-> power_const(u.mult, n),
   base |-> [exp |-> [b \in Base |-> Wrap(b, u.base.exp[b] * n)],
             flags |-> IF IsEven(n) THEN u.base.flags \ {"i_flag"} ELSE u.base.flags],
   commodity |-> u.commodity]

\* One factor.
LEMMA ProductOfOne == ASSUME NEW u, Typed(u) PROVE Product(u, 1) = u
<1> DEFINE x == u.base.exp
<1>1. /\ u = [mult |-> u.mult, base |-> u.base, commodity |-> u.commodity]
      /\ u.base = [exp |-> x, flags |-> u.base.flags]
      /\ x \in [Base -> Int]
  BY DEF Typed, PreciseUnitType, UnitDataType
<1>2. \A b \in Base : Wrap(b, x[b]) = x[b]
  BY <1>1, WrapFits DEF Typed, InFields
<1>3. \A y \in Int : y * 1 = y
  OBVIOUS
<1>4. [b \in Base |-> Wrap(b, x[b] * 1)] = x
  <2>1. \A b \in Base : x[b] * 1 = x[b]
    BY <1>1, <1>3
  <2> QED  BY <1>1, <1>2, <2>1
<1>5. ~IsEven(1) /\ power_const(u.mult, 1) = u.mult
  BY DEF IsEven, power_const
<1> QED  BY <1>1, <1>4, <1>5 DEF Product

\* One factor more.
LEMMA ProductStep ==
  ASSUME NEW u, Typed(u), NEW n \in Nat, n >= 1
  PROVE  UnitTimes(Product(u, n), u) = Product(u, n + 1)
<1> DEFINE x == u.base.exp
           F == u.base.flags
           p == Product(u, n)
           q == Product(u, n + 1)
<1>1. /\ x \in [Base -> Int] /\ F \subseteq Flag
      /\ u.mult \in Multiplier /\ u.commodity \subseteq CommodityBits
  BY DEF Typed, PreciseUnitType, UnitDataType
<1>2. IsEven(n + 1) <=> ~IsEven(n)
  BY DEF IsEven
<1>3. TimesMult(p.mult, u.mult) = q.mult
  BY <1>1, <1>2 DEF Product, TimesMult, power_const, Multiplier
<1>4. ASSUME NEW b \in Base
      PROVE  Wrap(b, p.base.exp[b] + x[b]) = Wrap(b, x[b] * (n + 1))
  <2>1. x[b] \in Int /\ x[b] * n \in Int
    BY <1>1
  <2>2. p.base.exp[b] = Wrap(b, x[b] * n)
    BY DEF Product
  <2>3. x[b] * n + x[b] = x[b] * (n + 1)
    BY <2>1
  <2> QED  BY <2>1, <2>2, <2>3, WrapArithmetic
<1>5. XorOn({"i_flag"}, p.base.flags, F) = q.base.flags
  <2>1. CASE IsEven(n)
    BY <1>2, <2>1 DEF Product, XorOn, Xor
  <2>2. CASE ~IsEven(n)
    BY <1>2, <2>2 DEF Product, XorOn, Xor
  <2> QED  BY <2>1, <2>2
<1>6. Times(p.base, u.base) = q.base
  <2>1. Times(p.base, u.base)
          = [exp |-> [b \in Base |-> Wrap(b, p.base.exp[b] + x[b])],
             flags |-> XorOn({"i_flag"}, p.base.flags, F)]
    BY DEF Times, unit_data
  <2>2. q.base = [exp |-> [b \in Base |-> Wrap(b, x[b] * (n + 1))],
                  flags |-> q.base.flags]
    BY DEF Product
  <2> HIDE DEF p, q, F, x
  <2> QED  BY <1>4, <1>5, <2>1, <2>2
<1>7. p.commodity \cup u.commodity = q.commodity
  BY DEF Product
<1>8. q = [mult |-> q.mult, base |-> q.base, commodity |-> q.commodity]
  BY DEF Product
<1> HIDE DEF p, q
<1> QED  BY <1>3, <1>6, <1>7, <1>8 DEF UnitTimes, precise_unit, p, q

\* The recursive definition of Repeated has a solution, which is Product.
LEMMA RepeatedIsProduct ==
  ASSUME TypeOK
  PROVE  \A n \in Nat : n >= 1 => Repeated[n] = Product(reg, n)
<1> DEFINE f == [n \in Nat |-> IF n <= 1 THEN reg ELSE Product(reg, n)]
<1>1. Typed(reg)
  BY DEF TypeOK, Typed
<1>2. \A n \in Nat : n > 1 => /\ n - 1 \in Nat /\ n - 1 >= 1
                               /\ (n - 1) + 1 = n
  OBVIOUS
<1>3. \A n \in Nat : n >= 1 => f[n] = Product(reg, n)
  BY <1>1, ProductOfOne
<1>4. \A n \in Nat : n > 1 => f[n] = UnitTimes(f[n - 1], reg)
  <2> SUFFICES ASSUME NEW n \in Nat, n > 1 PROVE f[n] = UnitTimes(f[n - 1], reg)
    OBVIOUS
  <2>1. f[n] = Product(reg, (n - 1) + 1) /\ f[n - 1] = Product(reg, n - 1)
    <3> HIDE DEF f
    <3> QED  BY <1>2, <1>3
  <2> QED  BY <1>1, <1>2, <2>1, ProductStep
<1>5. f = [n \in Nat |-> IF n <= 1 THEN reg ELSE UnitTimes(f[n - 1], reg)]
  <2>1. \A n \in Nat : f[n] = IF n <= 1 THEN reg ELSE UnitTimes(f[n - 1], reg)
    BY <1>4
  <2>2. f = [n \in Nat |-> f[n]]
    OBVIOUS
  <2> HIDE DEF f
  <2> QED  BY <2>1, <2>2
<1> HIDE DEF f
<1>6. Repeated = [n \in Nat |-> IF n <= 1 THEN reg
                                ELSE UnitTimes(Repeated[n - 1], reg)]
  BY <1>5 DEF Repeated
<1> DEFINE Holding == {n \in Nat : n >= 1 => Repeated[n] = Product(reg, n)}
<1>7. 0 \in Holding
  OBVIOUS
<1>8. ASSUME NEW n \in Nat, n \in Holding PROVE n + 1 \in Holding
  <2>1. CASE n = 0
    <3>1. Repeated[1] = reg
      BY <1>6
    <3> QED  BY <1>1, <2>1, <3>1, ProductOfOne
  <2>2. CASE n # 0
    <3>1. /\ n + 1 \in Nat /\ ~(n + 1 <= 1) /\ (n + 1) - 1 = n /\ n >= 1
      BY <2>2
    <3>2. Repeated[n + 1] = UnitTimes(Repeated[n], reg)
      BY <1>6, <3>1
    <3>3. Repeated[n] = Product(reg, n)
      BY <1>8, <3>1
    <3> QED  BY <1>1, <3>1, <3>2, <3>3, ProductStep
  <2> QED  BY <2>1, <2>2
<1>9. Nat \subseteq Holding
  <2> HIDE DEF Holding
  <2> QED  BY <1>7, <1>8, InductionOnSet
<1> QED  BY <1>9

\* A power of one or more multiplies that many factors, flags, commodity and
\* wrapped exponents and all, and the base units of a negative power are the
\* inverse of such a product, unless the power is even and the unit looks like
\* a square root of hertz.
THEOREM PowMultiplies == Spec => []PowIsRepeatedTimes
<1>1. IInv => PowIsRepeatedTimes
  <2> SUFFICES ASSUME IInv, NEW n \in Power \ {0},
                      ~(IsEven(n) /\ IsRootHertzLike(reg.base))
               PROVE  IF n > 0 THEN UnitPow(reg, n) = Repeated[n]
                      ELSE UnitPow(reg, n).base = Inv(Repeated[-n].base)
    BY DEF PowIsRepeatedTimes
  <2> DEFINE x == reg.base.exp
  <2>1. n \in Int /\ n # 0
    BY PowerAssumption
  <2>2. rootHertzModifier(reg.base, n) = 0
    BY DEF rootHertzModifier
  <2>3. PowFlags(reg.base.flags, n)
          = IF IsEven(n) THEN reg.base.flags \ {"i_flag"} ELSE reg.base.flags
    BY DEF PowFlags, IsRootHertzLike, RootHertzFlags
  <2>4. x \in [Base -> Int]
    BY DEF IInv, TypeOK, PreciseUnitType, UnitDataType
  <2>5. ASSUME NEW b \in Base PROVE PowExponents(reg.base, n)[b] = x[b] * n
    <3>1. x[b] * n \in Int
      BY <2>1, <2>4
    <3>2. PowExponents(reg.base, n)[b] = x[b] * n + 0
      BY <2>2 DEF PowExponents
    <3> QED  BY <3>1, <3>2
  <2>6. Pow(reg.base, n)
          = [exp |-> [b \in Base |-> Wrap(b, x[b] * n)],
             flags |-> PowFlags(reg.base.flags, n)]
    BY <2>5 DEF Pow, unit_data
  <2>7. CASE n > 0
    <3>1. Repeated[n] = Product(reg, n)
      BY <2>1, <2>7, RepeatedIsProduct DEF IInv
    <3> QED  BY <2>3, <2>6, <2>7, <3>1 DEF UnitPow, precise_unit, Product
  <2>8. CASE ~(n > 0)
    <3>1. /\ -n \in Nat /\ -n >= 1
          /\ IsEven(-n) <=> IsEven(n)
      BY <2>1, <2>8 DEF IsEven
    <3>2. Repeated[-n] = Product(reg, -n)
      BY <3>1, RepeatedIsProduct DEF IInv
    <3>3. ASSUME NEW b \in Base
          PROVE  Wrap(b, -Wrap(b, x[b] * (-n))) = Wrap(b, x[b] * n)
      <4>1. /\ x[b] * (-n) \in Int /\ -(x[b] * (-n)) = x[b] * n
        BY <2>1, <2>4
      <4>2. Wrap(b, -Wrap(b, x[b] * (-n))) = Wrap(b, -(x[b] * (-n)))
        BY <4>1, WrapArithmetic
      <4> QED  BY <4>1, <4>2
    <3>4. Inv(Product(reg, -n).base)
            = [exp |-> [b \in Base |-> Wrap(b, x[b] * n)],
               flags |-> PowFlags(reg.base.flags, n)]
      <4> DEFINE q == Product(reg, -n).base
      <4>1. /\ q.exp = [b \in Base |-> Wrap(b, x[b] * (-n))]
            /\ q.flags = PowFlags(reg.base.flags, n)
        BY <2>3, <3>1 DEF Product
      <4>2. ASSUME NEW b \in Base PROVE Wrap(b, -q.exp[b]) = Wrap(b, x[b] * n)
        <5>1. q.exp[b] = Wrap(b, x[b] * (-n))
          BY <4>1
        <5> HIDE DEF q, x
        <5> QED  BY <3>3, <5>1
      <4>3. Inv(q) = [exp |-> [b \in Base |-> Wrap(b, -q.exp[b])],
                      flags |-> q.flags]
        <5> HIDE DEF q
        <5> QED  BY DEF Inv, unit_data
      <4> HIDE DEF q
      <4> QED  BY <4>1, <4>2, <4>3 DEF q
    <3>5. UnitPow(reg, n).base = Pow(reg.base, n)
      BY DEF UnitPow, precise_unit
    <3> QED  BY <2>6, <2>8, <3>2, <3>4, <3>5
  <2> QED  BY <2>7, <2>8
<1> QED  BY <1>1, Invariance, PTL

(***************************************************************************)
(* Residues.                                                               *)
(***************************************************************************)
NonZero == Finite \ {0}

\* The modulus and the residues are integers.
LEMMA PrimeFacts ==
  /\ Prime \in Nat /\ Prime > 10000 /\ Prime \in Int
  /\ Finite \subseteq Nat /\ 0 \in Finite /\ 1 \in NonZero
  /\ NonZero = 1..(Prime - 1) /\ NaN \notin Int /\ NaN \notin Finite
  /\ \A n \in 0..10000 : n \in Finite
  /\ \A n \in 1..10000 : n \in NonZero
BY PrimeAssumption, NaNAssumption DEF Finite, NonZero

\* A residue is an integer.
LEMMA ResidueIsInteger == \A r \in Finite : r \in Int /\ r * 1 = r /\ 1 * r = r
<1>1. \A r \in Finite : r \in Int
  BY PrimeAssumption DEF Finite
<1> QED  BY <1>1

\* Zero, one and NaN.
LEMMA Digits ==
  /\ 0 \in Finite /\ 1 \in Finite /\ 1 \in NonZero /\ 1 # NaN /\ 0 # NaN
  /\ \A r \in Finite : r # NaN
  /\ \A r \in NonZero : r \in Finite /\ r # 0
  /\ \A r \in Finite : r # 0 => r \in NonZero
<1>1. Prime \in Int /\ Prime > 10000 /\ NaN \notin Int
  BY PrimeAssumption, NaNAssumption
<1>2. \A r \in Finite : r \in Int
  BY <1>1 DEF Finite
<1> QED  BY <1>1, <1>2 DEF Finite, NonZero

\* A multiple of the modulus that is less than it is zero.
LEMMA NoMultiple ==
  ASSUME NEW m \in Int, -Prime < Prime * m, Prime * m < Prime
  PROVE  m = 0
<1>1. Prime \in Int /\ Prime > 0
  BY PrimeFacts
<1>2. CASE m >= 1
  <2>1. Prime * m >= Prime
    BY <1>1, <1>2, SMTT(30)
  <2> QED  BY <1>1, <2>1
<1>3. CASE m <= -1
  <2>1. Prime * m <= -Prime
    BY <1>1, <1>3, SMTT(30)
  <2> QED  BY <1>1, <2>1
<1> QED  BY <1>2, <1>3

\* A residue, and what it leaves.
LEMMA Residue ==
  ASSUME NEW a \in Int
  PROVE  a % Prime \in Finite /\ \E k \in Int : a = (a % Prime) + Prime * k
<1>1. Prime \in Int /\ Prime > 0
  BY PrimeFacts
<1>2. a % Prime \in Finite
  BY <1>1 DEF Finite
<1>3. a \div Prime \in Int /\ a = (a % Prime) + Prime * (a \div Prime)
  BY <1>1
<1> QED  BY <1>2, <1>3

\* It is the only residue that leaves a multiple.
LEMMA ResidueUnique ==
  ASSUME NEW r \in Finite, NEW k \in Int
  PROVE  (r + Prime * k) % Prime = r
<1>1. Prime \in Int /\ Prime > 0 /\ Finite = 0..(Prime - 1)
  BY PrimeFacts DEF Finite
<1> DEFINE a == r + Prime * k
           s == a % Prime
<1>2. a \in Int /\ r \in Int /\ Prime * k \in Int
  BY <1>1
<1>3. PICK j \in Int : a = s + Prime * j
  BY <1>2, Residue
<1>4. s \in Finite
  BY <1>2, Residue
<1> HIDE DEF s
<1>5. r - s = Prime * (j - k)
  <2>1. Prime * (j - k) = Prime * j - Prime * k
    BY <1>1
  <2>2. Prime * j \in Int
    BY <1>1
  <2> QED  BY <1>1, <1>2, <1>3, <1>4, <2>1, <2>2
<1>6. -Prime < r - s /\ r - s < Prime /\ s \in Int
  BY <1>1, <1>4
<1>7. j - k \in Int
  OBVIOUS
<1>8. j - k = 0
  BY <1>5, <1>6, <1>7, NoMultiple
<1>9. r - s = 0
  BY <1>1, <1>5, <1>8
<1>10. s = r
  BY <1>1, <1>6, <1>9
<1> QED  BY <1>10 DEF s

\* Multiples of the modulus may be dropped.
LEMMA ResidueShift ==
  ASSUME NEW a \in Int, NEW k \in Int
  PROVE  (a + Prime * k) % Prime = a % Prime
<1>1. Prime \in Int
  BY PrimeFacts
<1>2. PICK j \in Int : a = (a % Prime) + Prime * j
  BY Residue
<1>a. a % Prime \in Finite
  BY Residue
<1>3. a % Prime \in Finite /\ a % Prime \in Int
  BY <1>a, ResidueIsInteger
<1> DEFINE r == a % Prime
<1> HIDE DEF r
<1>4. a + Prime * k = r + Prime * (j + k)
  <2>1. Prime * (j + k) = Prime * j + Prime * k /\ Prime * j \in Int /\ Prime * k \in Int
    BY <1>1
  <2> QED  BY <1>2, <1>3, <2>1 DEF r
<1>5. j + k \in Int
  OBVIOUS
<1>6. (r + Prime * (j + k)) % Prime = r
  BY <1>3, <1>5, ResidueUnique DEF r
<1> QED  BY <1>4, <1>6 DEF r

\* A residue is its own.
LEMMA ResidueOfResidue ==
  ASSUME NEW r \in Finite
  PROVE  r % Prime = r
<1>1. r \in Int /\ Prime \in Int
  BY PrimeFacts
<1>2. r + Prime * 0 = r
  BY <1>1
<1> QED  BY <1>2, ResidueUnique

\* Residues may be taken early.
LEMMA ResidueEarly ==
  ASSUME NEW a \in Int, NEW b \in Int
  PROVE  /\ ((a % Prime) * b) % Prime = (a * b) % Prime
         /\ (a * (b % Prime)) % Prime = (a * b) % Prime
         /\ ((a % Prime) + b) % Prime = (a + b) % Prime
         /\ (a + (b % Prime)) % Prime = (a + b) % Prime
         /\ ((a % Prime) - b) % Prime = (a - b) % Prime
         /\ (a - (b % Prime)) % Prime = (a - b) % Prime
<1>1. Prime \in Int
  BY PrimeFacts
<1> DEFINE r == a % Prime
           s == b % Prime
<1>2. PICK j \in Int : a = r + Prime * j
  BY Residue
<1>3. PICK k \in Int : b = s + Prime * k
  BY Residue
<1>4. r \in Int /\ s \in Int
  BY Residue, PrimeFacts
<1> HIDE DEF r, s
<1>5. (r * b) % Prime = (a * b) % Prime
  <2>1. a * b = r * b + Prime * (j * b)
    BY <1>1, <1>2, <1>4, SMTT(30)
  <2>2. r * b \in Int /\ j * b \in Int
    BY <1>4
  <2> QED  BY <2>1, <2>2, ResidueShift
<1>6. (a * s) % Prime = (a * b) % Prime
  <2>1. a * b = a * s + Prime * (k * a)
    BY <1>1, <1>3, <1>4, SMTT(30)
  <2>2. a * s \in Int /\ k * a \in Int
    BY <1>4
  <2> QED  BY <2>1, <2>2, ResidueShift
<1>7. (r + b) % Prime = (a + b) % Prime
  <2>1. a + b = (r + b) + Prime * j
    BY <1>1, <1>2, <1>4, SMTT(30)
  <2>2. r + b \in Int
    BY <1>4
  <2> QED  BY <2>1, <2>2, ResidueShift
<1>8. (a + s) % Prime = (a + b) % Prime
  <2>1. a + b = (a + s) + Prime * k
    BY <1>1, <1>3, <1>4, SMTT(30)
  <2>2. a + s \in Int
    BY <1>4
  <2> QED  BY <2>1, <2>2, ResidueShift
<1>9. (r - b) % Prime = (a - b) % Prime
  <2>1. a - b = (r - b) + Prime * j
    BY <1>1, <1>2, <1>4, SMTT(30)
  <2>2. r - b \in Int
    BY <1>4
  <2> QED  BY <2>1, <2>2, ResidueShift
<1>10. (a - s) % Prime = (a - b) % Prime
  <2>1. a - b = (a - s) + Prime * (-k)
    BY <1>1, <1>3, <1>4, SMTT(30)
  <2>2. a - s \in Int /\ -k \in Int
    BY <1>4
  <2> QED  BY <2>1, <2>2, ResidueShift
<1> QED  BY <1>5, <1>6, <1>7, <1>8, <1>9, <1>10 DEF r, s

\* Powers are residues, and the small ones are products.
LEMMA LinearPower ==
  ASSUME NEW x \in Finite
  PROVE  \E f \in [Nat -> Finite] :
           /\ f[0] = 1
           /\ \A n \in Nat : f[n + 1] = (f[n] * x) % Prime
           /\ \A n \in Nat : n # 0 =>
                f[n] = (((f[n \div 2] * f[n \div 2]) % Prime)
                          * (IF n % 2 = 0 THEN 1 ELSE x)) % Prime
<1> DEFINE G == [q \in Nat \X Finite |-> (q[2] * x) % Prime]
<1>1. Finite \subseteq Int /\ 1 \in Finite /\ x \in Int /\ Prime \in Int
  BY PrimeFacts DEF NonZero
<1>2. \A y \in Finite : (y * x) % Prime \in Finite
  <2> TAKE y \in Finite
  <2>1. y * x \in Int
    BY <1>1
  <2> QED  BY <2>1, Residue
<1>3. G \in [Nat \X Finite -> Finite]
  BY <1>2
<1>4. \A n \in Nat, y \in Finite : G[<<n, y>>] = (y * x) % Prime
  OBVIOUS
<1> HIDE DEF G
<1>5. PICK f : IsSequence(f, Finite, 1, G)
  BY <1>1, <1>3, RecursiveSequence
<1>6. f \in [Nat -> Finite] /\ f[0] = 1 /\ \A n \in Nat : f[n + 1] = G[<<n, f[n]>>]
  BY <1>5 DEF IsSequence
<1>7. \A n \in Nat : f[n] \in Finite /\ f[n] \in Int
  BY <1>1, <1>6
<1>8. \A n \in Nat : f[n + 1] = (f[n] * x) % Prime
  BY <1>4, <1>6, <1>7
<1>9. ASSUME NEW m \in Nat
      PROVE  \A n \in Nat : f[m + n] = (f[m] * f[n]) % Prime
  <2> DEFINE Holding == {n \in Nat : f[m + n] = (f[m] * f[n]) % Prime}
  <2>1. 0 \in Holding
    <3>1. f[m] * f[0] = f[m] /\ m + 0 = m
      BY <1>6, <1>7
    <3>2. f[m] % Prime = f[m]
      BY <1>7, ResidueOfResidue
    <3> QED  BY <3>1, <3>2
  <2>2. ASSUME NEW n \in Nat, n \in Holding PROVE n + 1 \in Holding
    <3> DEFINE a == f[m]
               b == f[n]
    <3>1. a \in Int /\ b \in Int /\ f[m + n] = (a * b) % Prime /\ a * b \in Int
      BY <1>7, <2>2
    <3>2. m + (n + 1) = (m + n) + 1 /\ m + n \in Nat
      OBVIOUS
    <3>3. f[m + (n + 1)] = (f[m + n] * x) % Prime
      BY <1>8, <3>2
    <3>4. f[n + 1] = (b * x) % Prime
      BY <1>8
    <3> HIDE DEF a, b
    <3>5. b * x \in Int
      BY <1>1, <3>1
    <3>6. (((a * b) % Prime) * x) % Prime = ((a * b) * x) % Prime
      BY <1>1, <3>1, ResidueEarly
    <3>7. (a * ((b * x) % Prime)) % Prime = (a * (b * x)) % Prime
      BY <3>1, <3>5, ResidueEarly
    <3>8. (a * b) * x = a * (b * x)
      BY <1>1, <3>1, SMTT(30)
    <3> QED  BY <3>1, <3>3, <3>4, <3>6, <3>7, <3>8 DEF a
  <2> HIDE DEF Holding
  <2>3. Nat \subseteq Holding
    BY <2>1, <2>2, InductionOnSet
  <2> QED  BY <2>3 DEF Holding
<1>10. ASSUME NEW n \in Nat, n # 0
       PROVE f[n] = (((f[n \div 2] * f[n \div 2]) % Prime)
                       * (IF n % 2 = 0 THEN 1 ELSE x)) % Prime
  <2> DEFINE h == n \div 2
             d == (f[h] * f[h]) % Prime
  <2>1. h \in Nat
    OBVIOUS
  <2>2. f[h + h] = d /\ h + h \in Nat
    BY <1>9, <2>1
  <2>3. d \in Finite /\ d \in Int
    BY <1>7, <2>2
  <2>4. CASE n % 2 = 0
    <3>1. n = h + h
      BY <2>4
    <3>2. d * 1 = d /\ d % Prime = d
      BY <2>3, ResidueOfResidue
    <3> HIDE DEF h, d
    <3>3. f[n] = (d * 1) % Prime
      BY <2>2, <3>1, <3>2
    <3> QED  BY <2>4, <3>3 DEF d, h
  <2>5. CASE n % 2 # 0
    <3>1. n = (h + h) + 1
      BY <2>5
    <3> HIDE DEF h, d
    <3>2. f[n] = (d * x) % Prime
      BY <1>8, <2>2, <3>1
    <3> QED  BY <2>5, <3>2 DEF d, h
  <2> QED  BY <2>4, <2>5
<1> QED  BY <1>6, <1>8, <1>10

\* The recursion of PowerMod has a solution, which is the repeated product.
LEMMA PowerEquation ==
  ASSUME NEW x \in Finite, NEW n \in Nat
  PROVE  PowerMod[<<x, n>>] =
           IF n = 0 THEN 1
           ELSE (((PowerMod[<<x, n \div 2>>] * PowerMod[<<x, n \div 2>>]) % Prime)
                   * (IF n % 2 = 0 THEN 1 ELSE x)) % Prime
<1> DEFINE Good(y, f) == /\ f \in [Nat -> Finite]
                         /\ f[0] = 1
                         /\ \A k \in Nat : k # 0 =>
                              f[k] = (((f[k \div 2] * f[k \div 2]) % Prime)
                                        * (IF k % 2 = 0 THEN 1 ELSE y)) % Prime
           g(y) == CHOOSE f : Good(y, f)
           D == Finite \X Nat
           F == [p \in D |-> g(p[1])[p[2]]]
           Body(p, h) == IF p[2] = 0 THEN 1
                         ELSE (((h * h) % Prime) * (IF p[2] % 2 = 0 THEN 1 ELSE p[1])) % Prime
<1>1. \A y \in Finite : Good(y, g(y))
  <2> TAKE y \in Finite
  <2>1. \E f : Good(y, f)
    BY LinearPower
  <2> HIDE DEF Good
  <2> QED  BY <2>1
<1>2. \A k \in Nat : k \div 2 \in Nat
  OBVIOUS
<1> HIDE DEF g
<1>3. \A y \in Finite, k \in Nat : F[<<y, k>>] = g(y)[k]
  OBVIOUS
<1>4. \A p \in D : F[p] = Body(p, F[<<p[1], p[2] \div 2>>])
  <2> TAKE p \in D
  <2>1. p[1] \in Finite /\ p[2] \in Nat /\ F[p] = g(p[1])[p[2]]
    OBVIOUS
  <2>2. F[<<p[1], p[2] \div 2>>] = g(p[1])[p[2] \div 2]
    BY <1>2, <1>3, <2>1
  <2>3. Good(p[1], g(p[1]))
    BY <1>1, <2>1
  <2> HIDE DEF F
  <2> DEFINE e == g(p[1])
  <2>4. CASE p[2] = 0
    BY <2>1, <2>3, <2>4
  <2>5. CASE p[2] # 0
    BY <2>1, <2>2, <2>3, <2>5
  <2> QED  BY <2>4, <2>5
<1>5. F = [p \in D |-> Body(p, F[<<p[1], p[2] \div 2>>])]
  <2>1. F = [p \in D |-> F[p]]
    OBVIOUS
  <2> HIDE DEF F, D, Body
  <2> QED  BY <1>4, <2>1
<1> HIDE DEF F
<1>6. PowerMod = [p \in D |-> Body(p, PowerMod[<<p[1], p[2] \div 2>>])]
  BY <1>5 DEF PowerMod
<1>7. <<x, n>> \in D /\ <<x, n>>[1] = x /\ <<x, n>>[2] = n
  OBVIOUS
<1>8. PowerMod[<<x, n>>] = Body(<<x, n>>, PowerMod[<<x, n \div 2>>])
  <2> HIDE DEF D, Body
  <2> QED  BY <1>6, <1>7
<1> QED  BY <1>8

\* Powers are residues.
LEMMA PowerTyped ==
  ASSUME NEW x \in Finite
  PROVE  \A n \in Nat : PowerMod[<<x, n>>] \in Finite
<1> DEFINE Holding == {n \in Nat : PowerMod[<<x, n>>] \in Finite}
<1>1. Finite \subseteq Int /\ 1 \in Finite /\ x \in Int
  BY PrimeFacts DEF NonZero
<1>2. ASSUME NEW n \in Nat, \A k \in 0..(n - 1) : k \in Holding PROVE n \in Holding
  <2>1. CASE n = 0
    BY <1>1, <2>1, PowerEquation
  <2>2. CASE n # 0
    <3> DEFINE h == PowerMod[<<x, n \div 2>>]
    <3>1. n \div 2 \in 0..(n - 1) /\ n \div 2 \in Nat
      BY <2>2
    <3>2. h \in Finite /\ h \in Int
      BY <1>1, <1>2, <3>1
    <3>3. PowerMod[<<x, n>>] = (((h * h) % Prime) * (IF n % 2 = 0 THEN 1 ELSE x)) % Prime
      BY <2>2, PowerEquation
    <3> HIDE DEF h
    <3>4. h * h \in Int
      BY <3>2
    <3>5. (h * h) % Prime \in Finite
      BY <3>4, Residue
    <3>6. (h * h) % Prime \in Int
      BY <1>1, <3>5
    <3>7. ((h * h) % Prime) * (IF n % 2 = 0 THEN 1 ELSE x) \in Int
      BY <1>1, <3>6
    <3> HIDE DEF Holding
    <3>8. PowerMod[<<x, n>>] \in Finite
      BY <3>3, <3>7, Residue
    <3> QED  BY <3>8 DEF Holding
  <2> QED  BY <2>1, <2>2
<1> HIDE DEF Holding
<1>3. Nat \subseteq Holding
  <2> DEFINE T == Nat \ Holding
  <2> SUFFICES ASSUME T # {} PROVE FALSE
    OBVIOUS
  <2>1. PICK m \in T : \A k \in T : m <= k
    BY LeastNumber
  <2>2. m \in Nat /\ \A k \in 0..(m - 1) : k \in Holding
    BY <2>1
  <2>3. m \in Holding
    BY <1>2, <2>2
  <2> QED  BY <2>1, <2>3
<1> QED  BY <1>3 DEF Holding

\* The powers that counting units take.
LEMMA SmallPowers ==
  ASSUME NEW x \in Finite
  PROVE  /\ PowerMod[<<x, 0>>] = 1 /\ PowerMod[<<x, 1>>] = x
         /\ PowerMod[<<x, 2>>] = (x * x) % Prime
<1>1. Finite \subseteq Int /\ 1 \in Finite /\ x \in Int
  BY PrimeFacts DEF NonZero
<1>2. 1 % Prime = 1 /\ x % Prime = x
  BY <1>1, ResidueOfResidue
<1>3. PowerMod[<<x, 0>>] = 1
  BY PowerEquation
<1>4. PowerMod[<<x, 1>>] = x
  <2>1. 1 \div 2 = 0 /\ 1 % 2 = 1
    OBVIOUS
  <2>2. PowerMod[<<x, 1>>] = (((1 * 1) % Prime) * x) % Prime
    BY <1>3, <2>1, PowerEquation
  <2>3. 1 * 1 = 1 /\ 1 * x = x
    BY <1>1
  <2> QED  BY <1>2, <2>2, <2>3
<1>5. PowerMod[<<x, 2>>] = (x * x) % Prime
  <2>1. 2 \div 2 = 1 /\ 2 % 2 = 0
    OBVIOUS
  <2>2. PowerMod[<<x, 2>>] = (((x * x) % Prime) * 1) % Prime
    BY <1>4, <2>1, PowerEquation
  <2>3. x * x \in Int
    BY <1>1
  <2>4. (x * x) % Prime \in Finite
    BY <2>3, Residue
  <2>5. ((x * x) % Prime) * 1 = (x * x) % Prime
    BY <2>4, ResidueIsInteger
  <2> QED  BY <2>2, <2>4, <2>5, ResidueOfResidue
<1> QED  BY <1>3, <1>4, <1>5

\* A residue that is not zero has an inverse.
LEMMA InverseFacts ==
  ASSUME NEW y \in NonZero
  PROVE  /\ y \in Finite /\ y # 0 /\ y \in Int
         /\ InverseTable[y] \in NonZero /\ InverseTable[y] \in Int
         /\ (y * InverseTable[y]) % Prime = 1
<1>1. y \in Finite /\ y # 0 /\ y \in 1..(Prime - 1)
  <2>1. y \in Finite /\ y # 0
    BY DEF NonZero
  <2>2. NonZero = 1..(Prime - 1)
    BY PrimeFacts
  <2> QED  BY <2>1, <2>2
<1>2. y \in Int
  BY <1>1, ResidueIsInteger
<1>3. Prime - 2 \in Nat
  BY PrimeFacts
<1>4. InverseTable[y] = PowerMod[<<y, Prime - 2>>]
  BY <1>1 DEF InverseTable
<1>5. InverseTable[y] \in Finite
  BY <1>1, <1>3, <1>4, PowerTyped
<1>6. (y * InverseTable[y]) % Prime = 1
  BY <1>1, InverseAssumption
<1>7. InverseTable[y] # 0
  <2> SUFFICES ASSUME InverseTable[y] = 0 PROVE FALSE
    OBVIOUS
  <2>1. y * 0 = 0
    BY <1>2
  <2>2. 0 % Prime = 0
    BY Digits, ResidueOfResidue
  <2> QED  BY <1>6, <2>1, <2>2
<1> QED  BY <1>1, <1>2, <1>5, <1>6, <1>7, ResidueIsInteger DEF NonZero

\* The operations on numbers other than NaN.
LEMMA OnResidues ==
  ASSUME NEW x \in Finite, NEW y \in Finite
  PROVE  /\ x ++ y = (x + y) % Prime /\ x ++ y \in Finite
         /\ x -- y = (x - y) % Prime /\ x -- y \in Finite
         /\ x ** y = (x * y) % Prime /\ x ** y \in Finite
         /\ y # 0 => x // y = (x * InverseTable[y]) % Prime /\ x // y \in Finite
         /\ y = 0 => x // y = NaN
         /\ x # NaN
<1>1. x # NaN /\ y # NaN
  BY Digits
<1>2. x \in Int /\ y \in Int
  BY ResidueIsInteger
<1>3. x + y \in Int /\ x - y \in Int /\ x * y \in Int
  BY <1>2
<1>4. (x + y) % Prime \in Finite /\ (x - y) % Prime \in Finite /\ (x * y) % Prime \in Finite
  BY <1>3, Residue
<1>5. ASSUME y # 0
      PROVE  x // y = (x * InverseTable[y]) % Prime /\ x // y \in Finite
  <2>1. InverseTable[y] \in Int
    BY <1>5, InverseFacts DEF NonZero
  <2>2. x * InverseTable[y] \in Int
    BY <1>2, <2>1
  <2>3. (x * InverseTable[y]) % Prime \in Finite
    BY <2>2, Residue
  <2> QED  BY <1>1, <1>5, <2>3 DEF //
<1> QED  BY <1>1, <1>4, <1>5 DEF ++, --, **, //

\* A number is a residue or NaN, and operations return numbers.
LEMMA NumberCases ==
  /\ Finite \subseteq Number /\ NaN \in Number
  /\ \A x \in Number : IsNumber(x) <=> x \in Finite
  /\ \A x \in Finite : IsNumber(x) /\ x # NaN
BY Digits DEF Number, IsNumber

\* Operations on numbers return numbers, and NaN unless both are residues.
LEMMA NumberClosure ==
  ASSUME NEW x \in Number, NEW y \in Number
  PROVE  /\ x ++ y \in Number /\ x -- y \in Number
         /\ x ** y \in Number /\ x // y \in Number
         /\ ~(x \in Finite /\ y \in Finite) =>
              /\ x ++ y = NaN /\ x -- y = NaN /\ x ** y = NaN /\ x // y = NaN
<1>1. CASE x \in Finite /\ y \in Finite
  BY <1>1, OnResidues DEF Number
<1>2. CASE ~(x \in Finite /\ y \in Finite)
  <2>1. NaN \in {x, y}
    BY <1>2 DEF Number
  <2> QED  BY <1>2, <2>1 DEF Number, ++, --, **, //
<1> QED  BY <1>1, <1>2

\* The results that are not NaN come of numbers that are not.
LEMMA NumberResults ==
  ASSUME NEW x \in Number, NEW y \in Number
  PROVE  /\ x ++ y \in Finite => x \in Finite /\ y \in Finite
         /\ x -- y \in Finite => x \in Finite /\ y \in Finite
         /\ x ** y \in Finite => x \in Finite /\ y \in Finite
         /\ x // y \in Finite => x \in Finite /\ y \in Finite /\ y # 0
<1>1. NaN \notin Finite
  BY PrimeFacts
<1> QED  BY <1>1, NumberClosure, OnResidues

\* A sum and a difference undo one another.
LEMMA SumLaws ==
  ASSUME NEW x \in Finite, NEW y \in Finite
  PROVE  /\ (x ++ y) -- y = x /\ (x -- y) ++ y = x
         /\ 0 -- (0 -- x) = x /\ y -- (y -- x) = x
         /\ x -- 0 = x /\ x ++ 0 = x
<1>1. x \in Int /\ y \in Int /\ 0 \in Finite
  BY ResidueIsInteger, PrimeFacts
<1>2. x % Prime = x
  BY ResidueOfResidue
<1>3. ASSUME NEW a \in Finite, NEW b \in Finite
      PROVE (a ++ b) -- b = a /\ (a -- b) ++ b = a /\ b -- (b -- a) = a
  <2>1. a \in Int /\ b \in Int
    BY ResidueIsInteger
  <2>2. a + b \in Int /\ a - b \in Int /\ b - a \in Int
    BY <2>1
  <2>3. (a ++ b) -- b = (((a + b) % Prime) - b) % Prime
    BY OnResidues
  <2>4. (a -- b) ++ b = (((a - b) % Prime) + b) % Prime
    BY OnResidues
  <2>5. b -- (b -- a) = (b - ((b - a) % Prime)) % Prime
    BY OnResidues
  <2>6. /\ (((a + b) % Prime) - b) % Prime = ((a + b) - b) % Prime
        /\ (((a - b) % Prime) + b) % Prime = ((a - b) + b) % Prime
        /\ (b - ((b - a) % Prime)) % Prime = (b - (b - a)) % Prime
    BY <2>1, <2>2, ResidueEarly
  <2>7. (a + b) - b = a /\ (a - b) + b = a /\ b - (b - a) = a
    BY <2>1
  <2>8. a % Prime = a
    BY ResidueOfResidue
  <2> QED  BY <2>3, <2>4, <2>5, <2>6, <2>7, <2>8
<1>4. x -- 0 = x /\ x ++ 0 = x
  <2>1. x - 0 = x /\ x + 0 = x
    BY <1>1
  <2> QED  BY <1>1, <1>2, <2>1, OnResidues
<1> QED  BY <1>1, <1>3, <1>4

\* The product commutes, associates and distributes, and one is its unit.
LEMMA ProductLaws ==
  ASSUME NEW x \in Finite, NEW y \in Finite, NEW z \in Finite
  PROVE  /\ x ** y = y ** x /\ (x ** y) ** z = x ** (y ** z)
         /\ 1 ** x = x /\ x ** 1 = x /\ 0 ** x = 0 /\ x ** 0 = 0
         /\ x ** (y -- z) = (x ** y) -- (x ** z)
<1>1. x \in Int /\ y \in Int /\ z \in Int /\ 0 \in Finite /\ 1 \in Finite
  BY ResidueIsInteger, PrimeFacts DEF NonZero
<1>2. x * y = y * x
  BY <1>1
<1>3. (x ** y) ** z = x ** (y ** z)
  <2>1. x * y \in Int /\ y * z \in Int
    BY <1>1
  <2>2. (x ** y) ** z = (((x * y) % Prime) * z) % Prime
    BY OnResidues
  <2>3. x ** (y ** z) = (x * ((y * z) % Prime)) % Prime
    BY OnResidues
  <2>4. (((x * y) % Prime) * z) % Prime = ((x * y) * z) % Prime
    BY <1>1, <2>1, ResidueEarly
  <2>5. (x * ((y * z) % Prime)) % Prime = (x * (y * z)) % Prime
    BY <1>1, <2>1, ResidueEarly
  <2>6. (x * y) * z = x * (y * z)
    BY <1>1, SMTT(30)
  <2> QED  BY <2>2, <2>3, <2>4, <2>5, <2>6
<1>4. 1 ** x = x /\ x ** 1 = x
  BY <1>1, OnResidues, ResidueIsInteger, ResidueOfResidue
<1>5. 0 ** x = 0 /\ x ** 0 = 0
  <2>1. 0 * x = 0 /\ x * 0 = 0
    BY <1>1
  <2> QED  BY <1>1, <2>1, OnResidues, ResidueOfResidue
<1>6. x ** (y -- z) = (x ** y) -- (x ** z)
  <2> DEFINE p == x * y
             q == x * z
  <2>1. p \in Int /\ q \in Int /\ y - z \in Int
    BY <1>1
  <2>2. x ** (y -- z) = (x * ((y - z) % Prime)) % Prime
    BY OnResidues
  <2>3. (x ** y) -- (x ** z) = ((p % Prime) - (q % Prime)) % Prime
    BY OnResidues
  <2>4. x * (y - z) = p - q
    BY <1>1, SMTT(30)
  <2>5. (x * ((y - z) % Prime)) % Prime = (p - q) % Prime
    BY <1>1, <2>1, <2>4, ResidueEarly
  <2> HIDE DEF p, q
  <2>6. q % Prime \in Int
    BY <2>1, Residue, ResidueIsInteger
  <2>7. ((p % Prime) - (q % Prime)) % Prime = (p - (q % Prime)) % Prime
    BY <2>1, <2>6, ResidueEarly
  <2>8. (p - (q % Prime)) % Prime = (p - q) % Prime
    BY <2>1, ResidueEarly
  <2> QED  BY <2>2, <2>3, <2>5, <2>7, <2>8
<1> QED  BY <1>2, <1>3, <1>4, <1>5, <1>6, OnResidues

\* Division is multiplication with the inverse.
LEMMA ReciprocalLaws ==
  ASSUME NEW x \in Finite, NEW y \in NonZero
  PROVE  /\ 1 // y \in NonZero /\ 1 // y \in Finite /\ y \in Finite
         /\ x // y = x ** (1 // y) /\ y ** (1 // y) = 1 /\ (1 // y) ** y = 1
<1> DEFINE i == InverseTable[y]
<1>1. y \in Finite /\ y # 0 /\ i \in NonZero /\ i \in Finite /\ i \in Int /\ (y * i) % Prime = 1
  BY InverseFacts DEF NonZero
<1>2. 1 \in Finite
  BY PrimeFacts
<1> HIDE DEF i
<1>3. 1 // y = i
  <2>1. 1 // y = (1 * i) % Prime
    BY <1>1, <1>2, OnResidues DEF i
  <2> QED  BY <1>1, <2>1, ResidueIsInteger, ResidueOfResidue
<1>4. x // y = (x * i) % Prime
  BY <1>1, OnResidues DEF i
<1>5. x ** i = (x * i) % Prime /\ y ** i = (y * i) % Prime
  BY <1>1, OnResidues
<1>6. i ** y = y ** i
  BY <1>1, ProductLaws
<1> QED  BY <1>1, <1>3, <1>4, <1>5, <1>6

\* A product and a quotient with the same number undo one another.
LEMMA QuotientLaws ==
  ASSUME NEW x \in Finite, NEW y \in NonZero
  PROVE  /\ x // y \in Finite /\ x ** y \in Finite /\ y \in Finite
         /\ (x ** y) // y = x /\ (x // y) ** y = x
         /\ 0 // y = 0 /\ x // 1 = x
<1> DEFINE i == 1 // y
<1>1. i \in Finite /\ y \in Finite /\ y ** i = 1 /\ i ** y = 1 /\ 0 \in Finite /\ 1 \in NonZero
  BY ReciprocalLaws, Digits
<1>2. \A z \in Finite : z // y = z ** i
  BY ReciprocalLaws
<1> HIDE DEF i
<1>3. x ** y \in Finite /\ x ** i \in Finite
  BY <1>1, OnResidues
<1>4. (x ** y) ** i = x ** (y ** i) /\ (x ** i) ** y = x ** (i ** y)
  BY <1>1, ProductLaws
<1>5. x ** 1 = x /\ 0 ** i = 0 /\ 1 \in Finite
  BY <1>1, ProductLaws, Digits
<1>6. x // 1 = x
  <2>1. (1 // 1) \in Finite /\ 1 ** (1 // 1) = 1 /\ x // 1 = x ** (1 // 1)
    BY <1>1, ReciprocalLaws
  <2>2. 1 // 1 = 1
    BY <2>1, ProductLaws, <1>5
  <2> QED  BY <1>5, <2>1, <2>2
<1> QED  BY <1>1, <1>2, <1>3, <1>4, <1>5, <1>6

\* What is times another number one is its inverse.
LEMMA InverseUnique ==
  ASSUME NEW x \in Finite, NEW y \in Finite, x ** y = 1
  PROVE  /\ x \in NonZero /\ y \in NonZero /\ 1 // y = x /\ 1 // x = y
<1>1. 0 # 1 /\ 0 \in Finite /\ 1 \in Finite
  BY Digits
<1>2. x # 0 /\ y # 0
  BY <1>1, ProductLaws
<1>3. x \in NonZero /\ y \in NonZero
  BY <1>2 DEF NonZero
<1>4. (x ** y) // y = x
  BY <1>3, QuotientLaws
<1>5. y ** x = 1
  BY ProductLaws
<1>6. (y ** x) // x = y
  BY <1>3, QuotientLaws
<1> QED  BY <1>3, <1>4, <1>5, <1>6

\* Products and quotients of numbers other than zero are other than zero.
LEMMA NonZeroClosure ==
  ASSUME NEW x \in NonZero, NEW y \in NonZero
  PROVE  x ** y \in NonZero /\ x // y \in NonZero /\ 1 // (1 // x) = x
<1>1. x \in Finite /\ y \in Finite
  BY DEF NonZero
<1>2. x ** y \in Finite /\ x // y \in Finite /\ (x ** y) // y = x /\ (x // y) ** y = x
      /\ 0 // y = 0 /\ 0 ** y = 0
  <2>1. 0 \in Finite
    BY Digits
  <2>2. x ** y \in Finite /\ x // y \in Finite /\ (x ** y) // y = x /\ (x // y) ** y = x /\ 0 // y = 0
    BY <1>1, QuotientLaws
  <2>3. 0 ** y = 0
    BY <1>1, ProductLaws
  <2> QED  BY <2>2, <2>3
<1>3. x # 0
  BY DEF NonZero
<1>4. x ** y # 0 /\ x // y # 0
  BY <1>2, <1>3
<1>5. 1 // x \in Finite /\ x ** (1 // x) = 1
  BY <1>1, ReciprocalLaws
<1> QED  BY <1>1, <1>2, <1>4, <1>5, InverseUnique DEF NonZero

(***************************************************************************)
(* The literals of the conversions.                                        *)
(***************************************************************************)
LEMMA SmallLiteral ==
  ASSUME NEW n \in Int, 0 <= n, n <= 10000
  PROVE  n \in Finite /\ n % Prime = n /\ (n # 0 => n \in NonZero)
<1>1. Prime \in Int /\ Prime > 10000
  BY PrimeAssumption
<1>b. Prime - 1 \in Int /\ n <= Prime - 1
  BY <1>1
<1>2. n \in Finite
  BY <1>b DEF Finite
<1> QED  BY <1>2, ResidueOfResidue DEF NonZero

\* A literal of the code is a residue.
LEMMA ReduceLiteral ==
  ASSUME NEW n \in Int
  PROVE  n % Prime \in Finite /\ (n % Prime # 0 => n % Prime \in NonZero)
BY Residue DEF NonZero

\* A rational literal is a residue, zero only if its numerator is.
LEMMA RationalTyped ==
  ASSUME NEW n \in Int, NEW d \in Int, d % Prime # 0
  PROVE  /\ Rational(n, d) \in Finite
         /\ n % Prime # 0 => Rational(n, d) \in NonZero
<1> DEFINE x == n % Prime
           y == d % Prime
<1>1. x \in Finite /\ (x # 0 => x \in NonZero) /\ y \in NonZero
  BY ReduceLiteral
<1> HIDE DEF x, y
<1>2. x // y \in Finite
  BY <1>1, QuotientLaws
<1>3. x # 0 => x // y \in NonZero
  BY <1>1, NonZeroClosure
<1> QED  BY <1>2, <1>3 DEF x, y, Rational

\* A rational literal of small integers is their quotient.
LEMMA SmallRational ==
  ASSUME NEW n \in Int, 0 <= n, n <= 10000, NEW d \in Int, 0 < d, d <= 10000
  PROVE  /\ Rational(n, d) = n // d
         /\ Rational(n, d) \in Finite
         /\ n # 0 => Rational(n, d) \in NonZero
<1>1. n % Prime = n /\ d % Prime = d
  <2>1. 0 <= d
    OBVIOUS
  <2>2. d % Prime = d
    BY <2>1, SmallLiteral
  <2>3. n % Prime = n
    BY SmallLiteral
  <2> QED  BY <2>2, <2>3
<1>2. d % Prime # 0
  <2>1. d # 0
    OBVIOUS
  <2> QED  BY <1>1, <2>1
<1> QED  BY <1>1, <1>2, RationalTyped DEF Rational

\* The large literals, and others, that a conversion divides by.
LEMMA LargeLiterals ==
  /\ \A n \in {34125, 100000, 980665, 10000000, 105505585, 353146667} :
       n \in Int /\ n % Prime # 0
  /\ 100 % Prime # 0 /\ 10000 % Prime # 0 /\ 1 % Prime # 0
<1>1. 100 % Prime = 100
  BY SmallLiteral
<1>2. 10000 % Prime = 10000
  BY SmallLiteral
<1>3. 1 % Prime = 1
  BY SmallLiteral
<1> QED  BY <1>1, <1>2, <1>3, LiteralAssumption

\* The named quantities of the conversions are residues, and not zero where
\* a conversion divides by them.
LEMMA LiteralFacts ==
  /\ scm \in NonZero /\ standard_gravity \in NonZero
  /\ Rational(34125, 100) \in NonZero
  /\ atm \in Finite /\ KelvinOffset \in Finite
  /\ Avogadro \in NonZero /\ (2 * Pi) % Prime \in NonZero
<1>1. scm \in NonZero
  <2>1. Rational(353146667, 10000000) \in NonZero
    <3>1. 353146667 \in Int /\ 353146667 % Prime # 0
          /\ 10000000 \in Int /\ 10000000 % Prime # 0
      BY LargeLiterals
    <3> QED  BY <3>1, RationalTyped
  <2>2. Rational(105505585, 100000) \in NonZero
    <3>1. 105505585 \in Int /\ 105505585 % Prime # 0
          /\ 100000 \in Int /\ 100000 % Prime # 0
      BY LargeLiterals
    <3> QED  BY <3>1, RationalTyped
  <2>3. 1100 \in NonZero
    BY SmallLiteral
  <2>4. Rational(353146667, 10000000) ** 1100 \in NonZero
    BY <2>1, <2>3, NonZeroClosure
  <2> QED  BY <2>2, <2>4, NonZeroClosure DEF scm
<1>2. standard_gravity \in NonZero
  <2>1. 980665 \in Int /\ 980665 % Prime # 0 /\ 100000 \in Int /\ 100000 % Prime # 0
    BY LargeLiterals
  <2> QED  BY <2>1, RationalTyped DEF standard_gravity
<1>3. Rational(34125, 100) \in NonZero
  <2>1. 34125 \in Int /\ 34125 % Prime # 0 /\ 100 % Prime # 0
    BY LargeLiterals
  <2> QED  BY <2>1, RationalTyped
<1>4. atm \in Finite
  <2>1. 1 % Prime # 0
    BY LargeLiterals
  <2> QED  BY <2>1, RationalTyped DEF atm
<1>5. KelvinOffset \in Finite
  <2>1. 100 % Prime # 0
    BY LargeLiterals
  <2> QED  BY <2>1, RationalTyped DEF KelvinOffset
<1>6. Avogadro \in NonZero /\ Pi \in NonZero
  BY ConstantsAssumption DEF NonZero
<1>7. (2 * Pi) % Prime \in NonZero
  <2>1. 2 \in NonZero
    BY SmallLiteral
  <2>2. 2 ** Pi \in NonZero
    BY <1>6, <2>1, NonZeroClosure
  <2>3. 2 \in Finite /\ Pi \in Finite
    BY <1>6, <2>1, Digits
  <2>4. 2 ** Pi = (2 * Pi) % Prime
    BY <2>3, OnResidues
  <2> QED  BY <2>2, <2>4
<1> QED  BY <1>1, <1>2, <1>3, <1>4, <1>5, <1>6, <1>7

\* The bias of a temperature scale is a residue.
LEMMA BiasTyped == \A m : Bias(m) \in Finite
<1>1. 121 \in Finite /\ 150 \in Finite /\ 0 \in Finite
  <2>1. 121 \in Finite
    BY SmallLiteral
  <2>2. 150 \in Finite
    BY SmallLiteral
  <2> QED  BY <2>1, <2>2, Digits
<1>2. Rational(377778, 10000) \in Finite
  <2>1. 10000 % Prime # 0
    BY LargeLiterals
  <2> QED  BY <2>1, RationalTyped
<1> QED  BY <1>1, <1>2 DEF Bias

\* A quotient and its reciprocal.
LEMMA Reciprocals ==
  ASSUME NEW x \in NonZero, NEW y \in NonZero
  PROVE  (x // y) ** (y // x) = 1
<1>1. x \in Finite /\ y \in Finite /\ y # 0 /\ x # 0 /\ 1 \in Finite
  BY Digits
<1> DEFINE i == 1 // x
           j == 1 // y
<1>2. i \in Finite /\ x ** i = 1 /\ y // x = y ** i
  BY <1>1, ReciprocalLaws
<1>3. j \in Finite /\ j ** y = 1 /\ x // y = x ** j
  BY <1>1, ReciprocalLaws
<1> HIDE DEF i, j
<1>4. y ** i \in Finite
  BY <1>1, <1>2, OnResidues
<1>5. (x ** j) ** (y ** i) = x ** (j ** (y ** i))
  BY <1>1, <1>3, <1>4, ProductLaws
<1>6. j ** (y ** i) = (j ** y) ** i
  BY <1>1, <1>2, <1>3, ProductLaws
<1>7. 1 ** i = i
  BY <1>1, <1>2, ProductLaws
<1> QED  BY <1>2, <1>3, <1>5, <1>6, <1>7

(***************************************************************************)
(* Scaling.                                                                *)
(***************************************************************************)
\* A factor that comes after a quotient may come before it.
LEMMA Commute ==
  ASSUME NEW x \in Finite, NEW y \in NonZero, NEW z \in NonZero
  PROVE  /\ (x // y) ** z = (x ** z) // y
         /\ (x // y) // z = (x // z) // y
         /\ (x ** y) ** z = (x ** z) ** y
<1> DEFINE i == 1 // y
           j == 1 // z
<1>1. i \in Finite /\ y \in Finite /\ \A a \in Finite : a // y = a ** i
  BY ReciprocalLaws
<1>2. j \in Finite /\ z \in Finite /\ \A a \in Finite : a // z = a ** j
  BY ReciprocalLaws
<1> HIDE DEF i, j
<1>3. \A a \in Finite, b \in Finite : a ** b \in Finite
  BY OnResidues
<1>4. \A a \in Finite, b \in Finite : (x ** a) ** b = (x ** b) ** a
  <2> TAKE a \in Finite, b \in Finite
  <2>1. (x ** a) ** b = x ** (a ** b)
    BY ProductLaws
  <2>2. (x ** b) ** a = x ** (b ** a)
    BY ProductLaws
  <2>3. a ** b = b ** a
    BY ProductLaws
  <2> QED  BY <2>1, <2>2, <2>3
<1> QED  BY <1>1, <1>2, <1>3, <1>4

\* What the ratio of two multipliers scales, the inverse ratio scales back.
LEMMA Scaling ==
  ASSUME NEW x \in Finite, NEW u, NEW v,
         u.multiplier \in NonZero, v.multiplier \in NonZero
  PROVE  /\ Scaled(x, u, v) \in Finite
         /\ Scaled(Scaled(x, u, v), v, u) = x
         /\ x = 0 => Scaled(x, u, v) = 0
         /\ Scaled(x, u, v) = 0 => x = 0
<1> DEFINE m == u.multiplier
           n == v.multiplier
<1>1. m \in NonZero /\ n \in NonZero /\ m \in Finite /\ n \in Finite
  BY Digits
<1> HIDE DEF m, n
<1>2. x ** m \in Finite /\ (x ** m) // m = x
  BY <1>1, QuotientLaws
<1>3. (x ** m) // n \in Finite /\ ((x ** m) // n) ** n = x ** m /\ 0 // n = 0
  BY <1>1, <1>2, QuotientLaws
<1>4. 0 ** m = 0 /\ 0 ** n = 0 /\ 0 // m = 0
  BY <1>1, ProductLaws, QuotientLaws
<1> QED  BY <1>2, <1>3, <1>4 DEF Scaled, m, n

\* Scaling commutes with a factor.
LEMMA ScalingByFactor ==
  ASSUME NEW x \in Finite, NEW u, NEW v, NEW f \in NonZero,
         u.multiplier \in NonZero, v.multiplier \in NonZero
  PROVE  /\ x ** f \in Finite /\ x // f \in Finite
         /\ Scaled(Scaled(x ** f, u, v) // f, v, u) = x
         /\ Scaled(Scaled(x // f, u, v) ** f, v, u) = x
         /\ Scaled(Scaled(x ** f, u, v), v, u) // f = x
         /\ Scaled(Scaled(x, u, v) // f, v, u) ** f = x
         /\ Scaled(Scaled(x, u, v) ** f, v, u) // f = x
<1> DEFINE m == u.multiplier
           n == v.multiplier
<1>1. m \in NonZero /\ n \in NonZero /\ m \in Finite /\ n \in Finite /\ f \in Finite
  BY Digits
<1>2. \A y \in Finite : /\ Scaled(y, u, v) \in Finite
                        /\ Scaled(Scaled(y, u, v), v, u) = y
  BY Scaling
<1>3. \A y \in Finite : /\ y ** f \in Finite /\ y // f \in Finite
                        /\ (y ** f) // f = y /\ (y // f) ** f = y
  BY QuotientLaws
<1>4. \A y \in Finite : /\ Scaled(y ** f, u, v) = Scaled(y, u, v) ** f
                        /\ Scaled(y // f, u, v) = Scaled(y, u, v) // f
  <2> TAKE y \in Finite
  <2> HIDE DEF m, n
  <2>1. (y ** f) ** m = (y ** m) ** f
    BY <1>1, Commute
  <2>2. (y // f) ** m = (y ** m) // f
    BY <1>1, Commute
  <2>3. y ** m \in Finite
    BY <1>1, QuotientLaws
  <2>4. ((y ** m) // n) ** f = ((y ** m) ** f) // n
    BY <1>1, <2>3, Commute
  <2>5. ((y ** m) // n) // f = ((y ** m) // f) // n
    BY <1>1, <2>3, Commute
  <2> QED  BY <2>1, <2>2, <2>4, <2>5 DEF Scaled, m, n
<1>5. \A y \in Finite : Scaled(y, v, u) \in Finite
  BY Scaling
<1>6. \A y \in Finite : /\ Scaled(y ** f, v, u) = Scaled(y, v, u) ** f
                        /\ Scaled(y // f, v, u) = Scaled(y, v, u) // f
  <2> TAKE y \in Finite
  <2> HIDE DEF m, n
  <2>1. (y ** f) ** n = (y ** n) ** f
    BY <1>1, Commute
  <2>2. (y // f) ** n = (y ** n) // f
    BY <1>1, Commute
  <2>3. y ** n \in Finite
    BY <1>1, QuotientLaws
  <2>4. ((y ** n) // m) ** f = ((y ** n) ** f) // m
    BY <1>1, <2>3, Commute
  <2>5. ((y ** n) // m) // f = ((y ** n) // f) // m
    BY <1>1, <2>3, Commute
  <2> QED  BY <2>1, <2>2, <2>4, <2>5 DEF Scaled, m, n
<1> QED  BY <1>2, <1>3, <1>4, <1>5, <1>6

(***************************************************************************)
(* Equation units.                                                         *)
(***************************************************************************)
LEMMA DegreeTyped == \A c \in DOMAIN Degree : Degree[c] \in Nat
BY DEF Degree

\* The curves turned around are curves.
LEMMA TurnedCurves == Turned \subseteq DOMAIN Degree
BY DEF Degree, Turned

\* A curve takes residues to residues.
LEMMA CurveTyped ==
  ASSUME NEW c \in DOMAIN Degree
  PROVE  /\ \A x \in Finite : Curve(c, x) \in Finite
         /\ Curve(c, NaN) = NaN /\ InverseCurve(c, NaN) = NaN
         /\ \A x \in Number : Curve(c, x) \in Number
<1>1. \A x \in Finite : Curve(c, x) \in Finite
  <2> TAKE x \in Finite
  <2>1. Degree[c] \in Nat
    BY DegreeTyped
  <2>2. PowerMod[<<x, Degree[c]>>] \in Finite
    BY <2>1, PowerTyped
  <2>3. x # NaN
    BY Digits
  <2> QED  BY <2>2, <2>3 DEF Curve
<1>2. Curve(c, NaN) = NaN /\ InverseCurve(c, NaN) = NaN
  BY DEF Curve, InverseCurve
<1> QED  BY <1>1, <1>2 DEF Number

\* A curve, and what turns it around.
LEMMA CurveTurned ==
  ASSUME NEW c \in Turned, NEW x \in Finite
  PROVE  /\ Curve(c, x) \in Finite /\ InverseCurve(c, x) \in Finite
         /\ InverseCurve(c, Curve(c, x)) = x /\ Curve(c, InverseCurve(c, x)) = x
<1>1. c \in DOMAIN Degree
  BY TurnedCurves
<1>2. Curve(c, x) \in Finite
  BY <1>1, CurveTyped
<1> QED  BY <1>2, CurveAssumption

\* Of a fraction of the number,
LEMMA CurveOfQuotient ==
  ASSUME NEW c \in Turned, NEW k \in NonZero, NEW x \in Finite
  PROVE  /\ Curve(c, x // k) \in Finite /\ k ** InverseCurve(c, x) \in Finite
         /\ k ** InverseCurve(c, Curve(c, x // k)) = x
         /\ Curve(c, (k ** InverseCurve(c, x)) // k) = x
<1>1. x // k \in Finite /\ (x // k) ** k = x /\ k \in Finite
  BY QuotientLaws
<1>2. Curve(c, x // k) \in Finite /\ InverseCurve(c, Curve(c, x // k)) = x // k
  BY <1>1, CurveTurned
<1>3. k ** (x // k) = (x // k) ** k
  BY <1>1, ProductLaws
<1> DEFINE i == InverseCurve(c, x)
<1>4. i \in Finite /\ Curve(c, i) = x
  BY CurveTurned
<1> HIDE DEF i
<1>5. k ** i = i ** k
  BY <1>1, <1>4, ProductLaws
<1>6. i ** k \in Finite /\ (i ** k) // k = i
  BY <1>4, QuotientLaws
<1> QED  BY <1>1, <1>2, <1>3, <1>4, <1>5, <1>6 DEF i

\* of its opposite,
LEMMA CurveOfOpposite ==
  ASSUME NEW c \in Turned, NEW x \in Finite
  PROVE  /\ Curve(c, 0 -- x) \in Finite /\ 0 -- InverseCurve(c, x) \in Finite
         /\ 0 -- InverseCurve(c, Curve(c, 0 -- x)) = x
         /\ Curve(c, 0 -- (0 -- InverseCurve(c, x))) = x
<1>1. 0 \in Finite
  BY Digits
<1>2. 0 -- x \in Finite /\ 0 -- (0 -- x) = x
  BY <1>1, OnResidues, SumLaws
<1> DEFINE i == InverseCurve(c, x)
<1>3. i \in Finite /\ Curve(c, i) = x
  BY CurveTurned
<1> HIDE DEF i
<1>4. 0 -- i \in Finite /\ 0 -- (0 -- i) = i
  BY <1>1, <1>3, OnResidues, SumLaws
<1>5. Curve(c, 0 -- x) \in Finite /\ InverseCurve(c, Curve(c, 0 -- x)) = 0 -- x
  BY <1>2, CurveTurned
<1> QED  BY <1>2, <1>3, <1>4, <1>5 DEF i

\* of a multiple of its opposite,
LEMMA CurveOfMultiple ==
  ASSUME NEW c \in Turned, NEW k \in NonZero, NEW x \in Finite
  PROVE  /\ Curve(c, k ** (0 -- x)) \in Finite
         /\ (0 -- InverseCurve(c, x)) // k \in Finite
         /\ (0 -- InverseCurve(c, Curve(c, k ** (0 -- x)))) // k = x
         /\ Curve(c, k ** (0 -- ((0 -- InverseCurve(c, x)) // k))) = x
<1>1. 0 \in Finite /\ k \in Finite
  BY Digits
<1>2. 0 -- x \in Finite
  BY <1>1, OnResidues
<1>3. ASSUME NEW z \in Finite
      PROVE  /\ k ** (0 -- z) \in Finite /\ (0 -- z) // k \in Finite
             /\ (0 -- (k ** (0 -- z))) // k = z
             /\ k ** (0 -- ((0 -- z) // k)) = z
  <2>1. 0 -- z \in Finite /\ 0 -- (0 -- z) = z
    BY <1>1, OnResidues, SumLaws
  <2>2. k ** (0 -- z) = (k ** 0) -- (k ** z) /\ k ** 0 = 0 /\ k ** z = z ** k
    BY <1>1, ProductLaws
  <2>3. z ** k \in Finite /\ (z ** k) // k = z
    BY QuotientLaws
  <2>4. 0 -- (0 -- (z ** k)) = z ** k
    BY <1>1, <2>3, SumLaws
  <2>5. k ** (0 -- z) = 0 -- (z ** k)
    BY <2>2
  <2>6. (0 -- z) // k \in Finite /\ ((0 -- z) // k) ** k = 0 -- z
    BY <2>1, QuotientLaws
  <2> DEFINE q == (0 -- z) // k
  <2> HIDE DEF q
  <2>7. k ** (0 -- q) = 0 -- (q ** k)
    <3>1. k ** (0 -- q) = (k ** 0) -- (k ** q) /\ k ** 0 = 0 /\ k ** q = q ** k
      BY <1>1, <2>6, ProductLaws DEF q
    <3> QED  BY <3>1
  <2>8. k ** (0 -- z) \in Finite
    BY <1>1, <2>1, OnResidues
  <2> QED  BY <2>1, <2>3, <2>4, <2>5, <2>6, <2>7, <2>8 DEF q
<1> DEFINE i == InverseCurve(c, x)
<1>4. i \in Finite /\ Curve(c, i) = x
  BY CurveTurned
<1> HIDE DEF i
<1>5. k ** (0 -- x) \in Finite /\ (0 -- (k ** (0 -- x))) // k = x
  BY <1>3
<1>6. InverseCurve(c, Curve(c, k ** (0 -- x))) = k ** (0 -- x) /\ Curve(c, k ** (0 -- x)) \in Finite
  BY <1>5, CurveTurned
<1>7. (0 -- i) // k \in Finite /\ k ** (0 -- ((0 -- i) // k)) = i
  BY <1>3, <1>4
<1> QED  BY <1>4, <1>5, <1>6, <1>7 DEF i

\* of a multiple of a sum,
LEMMA CurveOfSum ==
  ASSUME NEW c \in Turned, NEW k \in Finite, NEW x \in Finite,
         NEW a \in Finite, NEW b \in Finite, a ** b = 1
  PROVE  /\ Curve(c, (x ++ k) ** a) \in Finite
         /\ (b ** InverseCurve(c, x)) -- k \in Finite
         /\ (b ** InverseCurve(c, Curve(c, (x ++ k) ** a))) -- k = x
         /\ Curve(c, (((b ** InverseCurve(c, x)) -- k) ++ k) ** a) = x
<1> DEFINE i == InverseCurve(c, x)
           s == x ++ k
<1>1. i \in Finite /\ Curve(c, i) = x
  BY CurveTurned
<1>2. s \in Finite /\ s -- k = x
  BY OnResidues, SumLaws
<1> HIDE DEF i, s
<1>3. \A z \in Finite : /\ z ** a \in Finite /\ b ** z \in Finite
                        /\ b ** (z ** a) = z /\ (b ** z) ** a = z
  <2> TAKE z \in Finite
  <2>1. z ** a \in Finite /\ b ** z \in Finite
    BY OnResidues
  <2>2. b ** (z ** a) = (z ** a) ** b /\ b ** z = z ** b /\ b ** a = a ** b
    BY <2>1, ProductLaws
  <2>3. (z ** a) ** b = z ** (a ** b) /\ (z ** b) ** a = z ** (b ** a)
    BY ProductLaws
  <2>4. z ** 1 = z
    BY ProductLaws
  <2> QED  BY <2>1, <2>2, <2>3, <2>4
<1>4. b ** i \in Finite /\ (b ** i) ** a = i
  BY <1>1, <1>3
<1>5. (b ** i) -- k \in Finite /\ ((b ** i) -- k) ++ k = b ** i
  BY <1>4, OnResidues, SumLaws
<1>6. s ** a \in Finite /\ b ** (s ** a) = s
  BY <1>2, <1>3
<1>7. Curve(c, s ** a) \in Finite /\ InverseCurve(c, Curve(c, s ** a)) = s ** a
  BY <1>6, CurveTurned
<1> QED  BY <1>1, <1>2, <1>4, <1>5, <1>6, <1>7 DEF i, s

\* and a multiple of a curve.
LEMMA MultipleOfCurve ==
  ASSUME NEW c \in Turned, NEW k \in NonZero, NEW l \in Finite, NEW x \in Finite
  PROVE  /\ k ** Curve(c, x ++ l) \in Finite
         /\ InverseCurve(c, x // k) -- l \in Finite
         /\ InverseCurve(c, (k ** Curve(c, x ++ l)) // k) -- l = x
         /\ k ** Curve(c, (InverseCurve(c, x // k) -- l) ++ l) = x
<1> DEFINE s == x ++ l
           q == x // k
           p == Curve(c, s)
           i == InverseCurve(c, q)
<1>1. k \in Finite
  BY Digits
<1>2. s \in Finite /\ s -- l = x
  BY OnResidues, SumLaws
<1>3. q \in Finite /\ q ** k = x
  BY QuotientLaws
<1> HIDE DEF s, q
<1>4. p \in Finite /\ InverseCurve(c, p) = s
  BY <1>2, CurveTurned
<1>5. i \in Finite /\ Curve(c, i) = q
  BY <1>3, CurveTurned
<1> HIDE DEF p, i
<1>6. k ** p = p ** k /\ k ** q = q ** k
  BY <1>1, <1>3, <1>4, ProductLaws
<1>7. p ** k \in Finite /\ (p ** k) // k = p
  BY <1>4, QuotientLaws
<1>8. i -- l \in Finite /\ (i -- l) ++ l = i
  BY <1>5, OnResidues, SumLaws
<1> QED  BY <1>2, <1>3, <1>4, <1>5, <1>6, <1>7, <1>8 DEF s, q, p, i

\* Densities: a quotient by a sum.
LEMMA QuotientBySum ==
  ASSUME NEW k \in NonZero, NEW l \in Finite, NEW x \in Finite
  PROVE  /\ k // (x ++ l) \in Finite =>
               k // (x ++ l) # 0 /\ (k // (k // (x ++ l))) -- l = x
         /\ (k // x) -- l \in Finite => k // (((k // x) -- l) ++ l) = x
         /\ k // (x ++ l) \in Number /\ (k // x) -- l \in Number
         /\ x ++ l = l ++ x
<1>1. k \in Finite /\ NaN \notin Finite
  BY Digits
<1>2. ASSUME NEW z \in NonZero PROVE k // z \in NonZero /\ k // (k // z) = z
  <2>1. z \in Finite /\ z # 0
    BY Digits
  <2>2. k // z \in NonZero
    BY NonZeroClosure
  <2>3. k // z \in Finite /\ (k // z) ** z = k
    BY <1>1, QuotientLaws
  <2>4. z ** (k // z) = k
    BY <2>1, <2>3, ProductLaws
  <2>5. (z ** (k // z)) // (k // z) = z
    BY <2>1, <2>2, QuotientLaws
  <2> QED  BY <2>2, <2>4, <2>5
<1>3. x ++ l \in Finite /\ (x ++ l) -- l = x
  BY OnResidues, SumLaws
<1>4. \A z \in Finite : z = 0 => k // z = NaN
  BY <1>1, OnResidues
<1>5. \A z \in Finite : z # 0 => z \in NonZero
  BY Digits
<1>6. \A z \in Finite : k // z \in Finite => z \in NonZero
  BY <1>1, <1>4, <1>5
<1>7. ASSUME k // (x ++ l) \in Finite
      PROVE  k // (x ++ l) # 0 /\ (k // (k // (x ++ l))) -- l = x
  <2>1. x ++ l \in NonZero
    BY <1>3, <1>6, <1>7
  <2>2. k // (x ++ l) \in NonZero /\ k // (k // (x ++ l)) = x ++ l
    BY <1>2, <2>1
  <2>3. k // (x ++ l) # 0
    BY <2>2, Digits
  <2> QED  BY <1>3, <2>2, <2>3
<1>n. k // x \in Number /\ k \in Number /\ l \in Number /\ x \in Number
  <2>1. k \in Number /\ l \in Number /\ x \in Number
    BY <1>1, NumberCases
  <2> QED  BY <2>1, NumberClosure
<1>8. ASSUME (k // x) -- l \in Finite
      PROVE  k // (((k // x) -- l) ++ l) = x
  <2>1. k // x \in Finite
    BY <1>8, <1>n, NumberResults
  <2>2. x \in NonZero
    BY <1>6, <2>1
  <2>3. k // (k // x) = x
    BY <1>2, <2>2
  <2>4. ((k // x) -- l) ++ l = k // x
    BY <2>1, SumLaws
  <2> QED  BY <2>3, <2>4
<1>9. k // (x ++ l) \in Number /\ (k // x) -- l \in Number
  <2>1. x ++ l \in Number
    BY <1>3, NumberCases
  <2>2. k // (x ++ l) \in Number
    BY <1>n, <2>1, NumberClosure
  <2>3. (k // x) -- l \in Number
    BY <1>n, NumberClosure
  <2> QED  BY <2>2, <2>3
<1>10. x ++ l = l ++ x
  <2>1. x \in Int /\ l \in Int
    BY ResidueIsInteger
  <2>2. x + l = l + x
    BY <2>1
  <2> QED  BY <2>2, OnResidues
<1> QED  BY <1>7, <1>8, <1>9, <1>10

\* The same for a quotient by a difference.
LEMMA QuotientByDifference ==
  ASSUME NEW k \in NonZero, NEW x \in Finite
  PROVE  /\ k // (k -- x) \in Finite =>
               k // (k -- x) # 0 /\ k ** (1 -- (1 // (k // (k -- x)))) = x
         /\ k ** (1 -- (1 // x)) \in Finite => k // (k -- (k ** (1 -- (1 // x)))) = x
         /\ k // (k -- x) \in Number /\ k ** (1 -- (1 // x)) \in Number
<1>1. k \in Finite /\ 1 \in Finite /\ 1 \in NonZero /\ NaN \notin Finite
  BY Digits
<1>2. ASSUME NEW z \in NonZero
      PROVE  k // z \in NonZero /\ k ** (1 -- (1 // (k // z))) = k -- z /\ k ** (1 // z) = k // z
             /\ k // (k // z) = z
  <2>1. z \in Finite /\ z # 0
    BY Digits
  <2>2. k // z \in NonZero
    BY NonZeroClosure
  <2> DEFINE q == k // z
             i == 1 // q
  <2>3. q \in Finite /\ q ** z = k
    BY <1>1, QuotientLaws
  <2>4. i \in Finite /\ q ** i = 1
    BY <2>2, ReciprocalLaws
  <2>a. 1 // z \in Finite /\ k // z = k ** (1 // z)
    BY <1>1, ReciprocalLaws
  <2> HIDE DEF q, i
  <2>5. k ** (1 -- i) = (k ** 1) -- (k ** i) /\ k ** 1 = k
    BY <1>1, <2>4, ProductLaws
  <2>6. k ** i = z
    <3>1. q ** z = z ** q
      BY <2>1, <2>3, ProductLaws
    <3>2. (z ** q) ** i = z ** (q ** i)
      BY <2>1, <2>3, <2>4, ProductLaws
    <3>3. z ** 1 = z
      BY <2>1, ProductLaws
    <3> QED  BY <2>3, <2>4, <3>1, <3>2, <3>3
  <2>7. k // q = z
    <3>1. (z ** q) // q = z
      BY <2>1, <2>2, QuotientLaws DEF q
    <3>2. q ** z = z ** q
      BY <2>1, <2>3, ProductLaws
    <3> QED  BY <2>3, <3>1, <3>2
  <2> QED  BY <2>2, <2>5, <2>6, <2>7, <2>a DEF q, i
<1>3. k -- x \in Finite /\ k -- (k -- x) = x
  BY <1>1, OnResidues, SumLaws
<1>4. \A z \in Finite : z = 0 => k // z = NaN /\ 1 // z = NaN
  BY <1>1, OnResidues
<1>5. \A z \in Finite : z # 0 => z \in NonZero
  BY Digits
<1>6. \A z \in Finite : k // z \in Finite \/ 1 // z \in Finite => z \in NonZero
  BY <1>1, <1>4, <1>5
<1>7. ASSUME k // (k -- x) \in Finite
      PROVE  k // (k -- x) # 0 /\ k ** (1 -- (1 // (k // (k -- x)))) = x
  <2>1. k -- x \in NonZero
    BY <1>3, <1>6, <1>7
  <2>2. k // (k -- x) \in NonZero /\ k ** (1 -- (1 // (k // (k -- x)))) = k -- (k -- x)
    BY <1>2, <2>1
  <2>3. k // (k -- x) # 0
    BY <2>2, Digits
  <2> QED  BY <1>3, <2>2, <2>3
<1>n. k \in Number /\ 1 \in Number /\ x \in Number
  BY <1>1, NumberCases
<1>m. 1 // x \in Number
  BY <1>n, NumberClosure
<1>p. 1 -- (1 // x) \in Number
  BY <1>n, <1>m, NumberClosure
<1>8. ASSUME k ** (1 -- (1 // x)) \in Finite
      PROVE  k // (k -- (k ** (1 -- (1 // x)))) = x
  <2>1. 1 -- (1 // x) \in Finite
    BY <1>8, <1>n, <1>p, NumberResults
  <2>2. 1 // x \in Finite
    BY <2>1, <1>n, <1>m, NumberResults
  <2>3. x \in NonZero
    BY <1>6, <2>2
  <2>4. k ** (1 // x) = k // x /\ k // (k // x) = x
    BY <1>2, <2>3
  <2>5. k ** (1 -- (1 // x)) = (k ** 1) -- (k ** (1 // x)) /\ k ** 1 = k
    BY <1>1, <2>2, ProductLaws
  <2>6. k ** (1 // x) \in Finite
    BY <1>1, <2>2, OnResidues
  <2>7. k -- (k -- (k ** (1 // x))) = k ** (1 // x)
    BY <1>1, <2>6, SumLaws
  <2> QED  BY <2>4, <2>5, <2>7
<1>9. k // (k -- x) \in Number
  <2>1. k -- x \in Number
    BY <1>3, NumberCases
  <2> QED  BY <1>n, <2>1, NumberClosure
<1>10. k ** (1 -- (1 // x)) \in Number
  BY <1>n, <1>p, NumberClosure
<1> QED  BY <1>7, <1>8, <1>9, <1>10

\* The two directions of an equation undo one another, where they give a
\* number: a logarithm of zero is the exception.
EquationUndone(u, x) ==
  LET From(y) == convert_equnit_to_value(y, u)
      To(y) == convert_value_to_equnit(y, u)
  IN /\ From(x) \in Number /\ To(x) \in Number
     /\ From(x) \in Finite => To(From(x)) \in {x, NaN}
     /\ From(x) \in Finite /\ eq_type(u) >= 16 => To(From(x)) = x
     /\ To(x) \in Finite => From(To(x)) = x

\* An exponential and its logarithm.
LEMMA LogarithmUndone ==
  ASSUME NEW u, NEW x \in Finite, NEW f \in [Finite -> Finite], NEW g \in [Finite -> Finite],
         \A y \in Finite : g[f[y]] = y /\ f[g[y]] = y,
         \A y \in Finite : convert_equnit_to_value(y, u) = f[y],
         \A y \in Finite : convert_value_to_equnit(y, u)
                            = IF eq_type(u) < 16 /\ y = 0 THEN NaN ELSE g[y],
         eq_type(u) \in Int
  PROVE  EquationUndone(u, x)
<1>1. NaN \notin Finite /\ Finite \subseteq Number /\ NaN \in Number
  BY Digits DEF Number
<1>2. f[x] \in Finite /\ g[x] \in Finite
  OBVIOUS
<1>3. convert_equnit_to_value(x, u) = f[x]
  OBVIOUS
<1>4. convert_value_to_equnit(f[x], u)
        = IF eq_type(u) < 16 /\ f[x] = 0 THEN NaN ELSE x
  BY <1>2
<1>5. convert_equnit_to_value(g[x], u) = x
  BY <1>2
<1>6. convert_value_to_equnit(x, u) \in {NaN, g[x]}
  OBVIOUS
<1>7. eq_type(u) >= 16 => convert_value_to_equnit(f[x], u) = x
  BY <1>4
<1>8. convert_value_to_equnit(f[x], u) \in {x, NaN}
  BY <1>4
<1>9. convert_value_to_equnit(x, u) \in Finite => convert_value_to_equnit(x, u) = g[x]
  BY <1>1, <1>6
<1>10. convert_equnit_to_value(x, u) \in Number /\ convert_value_to_equnit(x, u) \in Number
  BY <1>1, <1>2, <1>3, <1>6
<1> QED  BY <1>3, <1>5, <1>7, <1>8, <1>9, <1>10 DEF EquationUndone

\* The number of an equation has five bits.
LEMMA EquationTypeRange == \A u : eq_type(u) \in 0..31
BY DEF eq_type, FlagBits, If

\* An equation that is a curve.
LEMMA PlainUndone ==
  ASSUME NEW c \in Turned, NEW u, NEW x \in Finite,
         \A y : /\ convert_equnit_to_value(y, u) = Curve(c, y)
               /\ convert_value_to_equnit(y, u)
                    = IF eq_type(u) < 16 /\ y = 0 THEN NaN ELSE InverseCurve(c, y)
  PROVE  EquationUndone(u, x)
<1> DEFINE f == [y \in Finite |-> Curve(c, y)]
           g == [y \in Finite |-> InverseCurve(c, y)]
<1>1. \A y \in Finite :
        /\ Curve(c, y) \in Finite /\ InverseCurve(c, y) \in Finite
        /\ InverseCurve(c, Curve(c, y)) = y
        /\ Curve(c, InverseCurve(c, y)) = y
  BY CurveTurned
<1>2. f \in [Finite -> Finite] /\ g \in [Finite -> Finite]
  BY <1>1
<1>3. \A y \in Finite : g[f[y]] = y /\ f[g[y]] = y
  BY <1>1
<1>4. \A y \in Finite :
        /\ convert_equnit_to_value(y, u) = f[y]
        /\ convert_value_to_equnit(y, u) = IF eq_type(u) < 16 /\ y = 0 THEN NaN ELSE g[y]
  OBVIOUS
<1>5. eq_type(u) \in Int
  BY EquationTypeRange
<1> HIDE DEF f, g
<1> QED  BY <1>2, <1>3, <1>4, <1>5, LogarithmUndone

\* An equation that is a curve of a quotient.
LEMMA QuotientUndone ==
  ASSUME NEW c \in Turned, NEW k \in NonZero, NEW u, NEW x \in Finite,
         \A y : /\ convert_equnit_to_value(y, u) = Curve(c, y // k)
               /\ convert_value_to_equnit(y, u)
                    = IF eq_type(u) < 16 /\ y = 0 THEN NaN ELSE k ** InverseCurve(c, y)
  PROVE  EquationUndone(u, x)
<1> DEFINE f == [y \in Finite |-> Curve(c, y // k)]
           g == [y \in Finite |-> k ** InverseCurve(c, y)]
<1>1. \A y \in Finite :
        /\ Curve(c, y // k) \in Finite /\ k ** InverseCurve(c, y) \in Finite
        /\ k ** InverseCurve(c, Curve(c, y // k)) = y
        /\ Curve(c, (k ** InverseCurve(c, y)) // k) = y
  BY CurveOfQuotient
<1>2. f \in [Finite -> Finite] /\ g \in [Finite -> Finite]
  BY <1>1
<1>3. \A y \in Finite : g[f[y]] = y /\ f[g[y]] = y
  BY <1>1
<1>4. \A y \in Finite :
        /\ convert_equnit_to_value(y, u) = f[y]
        /\ convert_value_to_equnit(y, u) = IF eq_type(u) < 16 /\ y = 0 THEN NaN ELSE g[y]
  OBVIOUS
<1>5. eq_type(u) \in Int
  BY EquationTypeRange
<1> HIDE DEF f, g
<1> QED  BY <1>2, <1>3, <1>4, <1>5, LogarithmUndone

\* An equation that is a curve of the opposite.
LEMMA OppositeUndone ==
  ASSUME NEW c \in Turned, NEW u, NEW x \in Finite,
         \A y : /\ convert_equnit_to_value(y, u) = Curve(c, 0 -- y)
               /\ convert_value_to_equnit(y, u)
                    = IF eq_type(u) < 16 /\ y = 0 THEN NaN ELSE 0 -- InverseCurve(c, y)
  PROVE  EquationUndone(u, x)
<1> DEFINE f == [y \in Finite |-> Curve(c, 0 -- y)]
           g == [y \in Finite |-> 0 -- InverseCurve(c, y)]
<1>1. \A y \in Finite :
        /\ Curve(c, 0 -- y) \in Finite /\ 0 -- InverseCurve(c, y) \in Finite
        /\ 0 -- InverseCurve(c, Curve(c, 0 -- y)) = y
        /\ Curve(c, 0 -- (0 -- InverseCurve(c, y))) = y
  BY CurveOfOpposite
<1>2. f \in [Finite -> Finite] /\ g \in [Finite -> Finite]
  BY <1>1
<1>3. \A y \in Finite : g[f[y]] = y /\ f[g[y]] = y
  BY <1>1
<1>4. \A y \in Finite :
        /\ convert_equnit_to_value(y, u) = f[y]
        /\ convert_value_to_equnit(y, u) = IF eq_type(u) < 16 /\ y = 0 THEN NaN ELSE g[y]
  OBVIOUS
<1>5. eq_type(u) \in Int
  BY EquationTypeRange
<1> HIDE DEF f, g
<1> QED  BY <1>2, <1>3, <1>4, <1>5, LogarithmUndone

\* An equation that is a curve of a multiple of the opposite.
LEMMA MultipleUndone ==
  ASSUME NEW c \in Turned, NEW k \in NonZero, NEW u, NEW x \in Finite,
         \A y : /\ convert_equnit_to_value(y, u) = Curve(c, k ** (0 -- y))
               /\ convert_value_to_equnit(y, u)
                    = IF eq_type(u) < 16 /\ y = 0 THEN NaN ELSE (0 -- InverseCurve(c, y)) // k
  PROVE  EquationUndone(u, x)
<1> DEFINE f == [y \in Finite |-> Curve(c, k ** (0 -- y))]
           g == [y \in Finite |-> (0 -- InverseCurve(c, y)) // k]
<1>1. \A y \in Finite :
        /\ Curve(c, k ** (0 -- y)) \in Finite /\ (0 -- InverseCurve(c, y)) // k \in Finite
        /\ (0 -- InverseCurve(c, Curve(c, k ** (0 -- y)))) // k = y
        /\ Curve(c, k ** (0 -- ((0 -- InverseCurve(c, y)) // k))) = y
  BY CurveOfMultiple
<1>2. f \in [Finite -> Finite] /\ g \in [Finite -> Finite]
  BY <1>1
<1>3. \A y \in Finite : g[f[y]] = y /\ f[g[y]] = y
  BY <1>1
<1>4. \A y \in Finite :
        /\ convert_equnit_to_value(y, u) = f[y]
        /\ convert_value_to_equnit(y, u) = IF eq_type(u) < 16 /\ y = 0 THEN NaN ELSE g[y]
  OBVIOUS
<1>5. eq_type(u) \in Int
  BY EquationTypeRange
<1> HIDE DEF f, g
<1> QED  BY <1>2, <1>3, <1>4, <1>5, LogarithmUndone

\* An equation that is a curve of a multiple of a sum.
LEMMA SumUndone ==
  ASSUME NEW c \in Turned, NEW k \in Finite,
         NEW a \in Finite, NEW b \in Finite, a ** b = 1, NEW u, NEW x \in Finite,
         \A y : /\ convert_equnit_to_value(y, u) = Curve(c, (y ++ k) ** a)
               /\ convert_value_to_equnit(y, u)
                    = IF eq_type(u) < 16 /\ y = 0 THEN NaN ELSE (b ** InverseCurve(c, y)) -- k
  PROVE  EquationUndone(u, x)
<1> DEFINE f == [y \in Finite |-> Curve(c, (y ++ k) ** a)]
           g == [y \in Finite |-> (b ** InverseCurve(c, y)) -- k]
<1>1. \A y \in Finite :
        /\ Curve(c, (y ++ k) ** a) \in Finite /\ (b ** InverseCurve(c, y)) -- k \in Finite
        /\ (b ** InverseCurve(c, Curve(c, (y ++ k) ** a))) -- k = y
        /\ Curve(c, (((b ** InverseCurve(c, y)) -- k) ++ k) ** a) = y
  BY CurveOfSum
<1>2. f \in [Finite -> Finite] /\ g \in [Finite -> Finite]
  BY <1>1
<1>3. \A y \in Finite : g[f[y]] = y /\ f[g[y]] = y
  BY <1>1
<1>4. \A y \in Finite :
        /\ convert_equnit_to_value(y, u) = f[y]
        /\ convert_value_to_equnit(y, u) = IF eq_type(u) < 16 /\ y = 0 THEN NaN ELSE g[y]
  OBVIOUS
<1>5. eq_type(u) \in Int
  BY EquationTypeRange
<1> HIDE DEF f, g
<1> QED  BY <1>2, <1>3, <1>4, <1>5, LogarithmUndone

\* An equation that is a multiple of a curve of a sum.
LEMMA FactorUndone ==
  ASSUME NEW c \in Turned, NEW k \in NonZero, NEW l \in Finite, NEW u, NEW x \in Finite,
         \A y : /\ convert_equnit_to_value(y, u) = k ** Curve(c, y ++ l)
               /\ convert_value_to_equnit(y, u)
                    = IF eq_type(u) < 16 /\ y = 0 THEN NaN ELSE InverseCurve(c, y // k) -- l
  PROVE  EquationUndone(u, x)
<1> DEFINE f == [y \in Finite |-> k ** Curve(c, y ++ l)]
           g == [y \in Finite |-> InverseCurve(c, y // k) -- l]
<1>1. \A y \in Finite :
        /\ k ** Curve(c, y ++ l) \in Finite /\ InverseCurve(c, y // k) -- l \in Finite
        /\ InverseCurve(c, (k ** Curve(c, y ++ l)) // k) -- l = y
        /\ k ** Curve(c, (InverseCurve(c, y // k) -- l) ++ l) = y
  BY MultipleOfCurve
<1>2. f \in [Finite -> Finite] /\ g \in [Finite -> Finite]
  BY <1>1
<1>3. \A y \in Finite : g[f[y]] = y /\ f[g[y]] = y
  BY <1>1
<1>4. \A y \in Finite :
        /\ convert_equnit_to_value(y, u) = f[y]
        /\ convert_value_to_equnit(y, u) = IF eq_type(u) < 16 /\ y = 0 THEN NaN ELSE g[y]
  OBVIOUS
<1>5. eq_type(u) \in Int
  BY EquationTypeRange
<1> HIDE DEF f, g
<1> QED  BY <1>2, <1>3, <1>4, <1>5, LogarithmUndone

\* The equations that are curves: logarithms without a factor.
LEMMA PlainCurves ==
  ASSUME NEW u, NEW x \in Finite, "equation" \in u.flags,
         eq_type(u) \in {0, 10, 8, 9, 14}
  PROVE  EquationUndone(u, x)
<1> DEFINE t == eq_type(u)
<1>1. CASE t \in {0, 10}
  <2>1. \A y : /\ convert_equnit_to_value(y, u) = Curve("exp10", y)
               /\ convert_value_to_equnit(y, u)
                    = IF t < 16 /\ y = 0 THEN NaN ELSE InverseCurve("exp10", y)
    BY <1>1 DEF convert_equnit_to_value, convert_value_to_equnit
  <2>2. "exp10" \in Turned
    BY DEF Turned
  <2> QED  BY <2>1, <2>2, PlainUndone
<1>2. CASE t = 8
  <2>1. \A y : /\ convert_equnit_to_value(y, u) = Curve("exp2", y)
               /\ convert_value_to_equnit(y, u)
                    = IF t < 16 /\ y = 0 THEN NaN ELSE InverseCurve("exp2", y)
    BY <1>2 DEF convert_equnit_to_value, convert_value_to_equnit
  <2>2. "exp2" \in Turned
    BY DEF Turned
  <2> QED  BY <2>1, <2>2, PlainUndone
<1>3. CASE t = 9
  <2>1. \A y : /\ convert_equnit_to_value(y, u) = Curve("exp", y)
               /\ convert_value_to_equnit(y, u)
                    = IF t < 16 /\ y = 0 THEN NaN ELSE InverseCurve("exp", y)
    BY <1>3 DEF convert_equnit_to_value, convert_value_to_equnit
  <2>2. "exp" \in Turned
    BY DEF Turned
  <2> QED  BY <2>1, <2>2, PlainUndone
<1>4. CASE t = 14
  <2>1. \A y : /\ convert_equnit_to_value(y, u) = Curve("exp3", y)
               /\ convert_value_to_equnit(y, u)
                    = IF t < 16 /\ y = 0 THEN NaN ELSE InverseCurve("exp3", y)
    BY <1>4 DEF convert_equnit_to_value, convert_value_to_equnit
  <2>2. "exp3" \in Turned
    BY DEF Turned
  <2> QED  BY <2>1, <2>2, PlainUndone
<1> QED  BY <1>1, <1>2, <1>3, <1>4

\* The bels, decibels and nepers, and the prism diopter.
LEMMA ScaledCurves ==
  ASSUME NEW u, NEW x \in Finite, "equation" \in u.flags,
         eq_type(u) \in {1, 2, 3, 11, 12, 13, 15, 27}
  PROVE  EquationUndone(u, x)
<1> DEFINE t == eq_type(u)
<1>1. CASE t = 1 /\ is_power_unit(u)
  <2>1. \A y : /\ convert_equnit_to_value(y, u) = Curve("exp", y // Rational(1, 2))
               /\ convert_value_to_equnit(y, u)
                    = IF t < 16 /\ y = 0 THEN NaN ELSE Rational(1, 2) ** InverseCurve("exp", y)
    BY <1>1 DEF convert_equnit_to_value, convert_value_to_equnit
  <2>2. "exp" \in Turned
    BY DEF Turned
  <2>3. Rational(1, 2) \in NonZero
    BY SmallRational
  <2> QED  BY <2>1, <2>2, <2>3, QuotientUndone
<1>2. CASE t = 1 /\ ~is_power_unit(u)
  <2>1. \A y : /\ convert_equnit_to_value(y, u) = Curve("exp", y // 1)
               /\ convert_value_to_equnit(y, u)
                    = IF t < 16 /\ y = 0 THEN NaN ELSE 1 ** InverseCurve("exp", y)
    BY <1>2 DEF convert_equnit_to_value, convert_value_to_equnit
  <2>2. "exp" \in Turned
    BY DEF Turned
  <2>3. 1 \in NonZero
    BY SmallLiteral
  <2> QED  BY <2>1, <2>2, <2>3, QuotientUndone
<1>3. CASE t = 2 /\ is_power_unit(u)
  <2>1. \A y : /\ convert_equnit_to_value(y, u) = Curve("exp10", y // 1)
               /\ convert_value_to_equnit(y, u)
                    = IF t < 16 /\ y = 0 THEN NaN ELSE 1 ** InverseCurve("exp10", y)
    BY <1>3 DEF convert_equnit_to_value, convert_value_to_equnit
  <2>2. "exp10" \in Turned
    BY DEF Turned
  <2>3. 1 \in NonZero
    BY SmallLiteral
  <2> QED  BY <2>1, <2>2, <2>3, QuotientUndone
<1>4. CASE t = 2 /\ ~is_power_unit(u)
  <2>1. \A y : /\ convert_equnit_to_value(y, u) = Curve("exp10", y // 2)
               /\ convert_value_to_equnit(y, u)
                    = IF t < 16 /\ y = 0 THEN NaN ELSE 2 ** InverseCurve("exp10", y)
    BY <1>4 DEF convert_equnit_to_value, convert_value_to_equnit
  <2>2. "exp10" \in Turned
    BY DEF Turned
  <2>3. 2 \in NonZero
    BY SmallLiteral
  <2> QED  BY <2>1, <2>2, <2>3, QuotientUndone
<1>5. CASE t = 3 /\ is_power_unit(u)
  <2>1. \A y : /\ convert_equnit_to_value(y, u) = Curve("exp10", y // 10)
               /\ convert_value_to_equnit(y, u)
                    = IF t < 16 /\ y = 0 THEN NaN ELSE 10 ** InverseCurve("exp10", y)
    BY <1>5 DEF convert_equnit_to_value, convert_value_to_equnit
  <2>2. "exp10" \in Turned
    BY DEF Turned
  <2>3. 10 \in NonZero
    BY SmallLiteral
  <2> QED  BY <2>1, <2>2, <2>3, QuotientUndone
<1>6. CASE t = 3 /\ ~is_power_unit(u)
  <2>1. \A y : /\ convert_equnit_to_value(y, u) = Curve("exp10", y // 20)
               /\ convert_value_to_equnit(y, u)
                    = IF t < 16 /\ y = 0 THEN NaN ELSE 20 ** InverseCurve("exp10", y)
    BY <1>6 DEF convert_equnit_to_value, convert_value_to_equnit
  <2>2. "exp10" \in Turned
    BY DEF Turned
  <2>3. 20 \in NonZero
    BY SmallLiteral
  <2> QED  BY <2>1, <2>2, <2>3, QuotientUndone
<1>7. CASE t = 11
  <2>1. \A y : /\ convert_equnit_to_value(y, u) = Curve("exp10", y // 10)
               /\ convert_value_to_equnit(y, u)
                    = IF t < 16 /\ y = 0 THEN NaN ELSE 10 ** InverseCurve("exp10", y)
    BY <1>7 DEF convert_equnit_to_value, convert_value_to_equnit
  <2>2. "exp10" \in Turned
    BY DEF Turned
  <2>3. 10 \in NonZero
    BY SmallLiteral
  <2> QED  BY <2>1, <2>2, <2>3, QuotientUndone
<1>8. CASE t = 12
  <2>1. \A y : /\ convert_equnit_to_value(y, u) = Curve("exp10", y // 2)
               /\ convert_value_to_equnit(y, u)
                    = IF t < 16 /\ y = 0 THEN NaN ELSE 2 ** InverseCurve("exp10", y)
    BY <1>8 DEF convert_equnit_to_value, convert_value_to_equnit
  <2>2. "exp10" \in Turned
    BY DEF Turned
  <2>3. 2 \in NonZero
    BY SmallLiteral
  <2> QED  BY <2>1, <2>2, <2>3, QuotientUndone
<1>9. CASE t = 13
  <2>1. \A y : /\ convert_equnit_to_value(y, u) = Curve("exp10", y // 20)
               /\ convert_value_to_equnit(y, u)
                    = IF t < 16 /\ y = 0 THEN NaN ELSE 20 ** InverseCurve("exp10", y)
    BY <1>9 DEF convert_equnit_to_value, convert_value_to_equnit
  <2>2. "exp10" \in Turned
    BY DEF Turned
  <2>3. 20 \in NonZero
    BY SmallLiteral
  <2> QED  BY <2>1, <2>2, <2>3, QuotientUndone
<1>10. CASE t = 15
  <2>1. \A y : /\ convert_equnit_to_value(y, u) = Curve("exp", y // Rational(1, 2))
               /\ convert_value_to_equnit(y, u)
                    = IF t < 16 /\ y = 0 THEN NaN ELSE Rational(1, 2) ** InverseCurve("exp", y)
    BY <1>10 DEF convert_equnit_to_value, convert_value_to_equnit
  <2>2. "exp" \in Turned
    BY DEF Turned
  <2>3. Rational(1, 2) \in NonZero
    BY SmallRational
  <2> QED  BY <2>1, <2>2, <2>3, QuotientUndone
<1>11. CASE t = 27
  <2>1. \A y : /\ convert_equnit_to_value(y, u) = Curve("arctan", y // 100)
               /\ convert_value_to_equnit(y, u)
                    = IF t < 16 /\ y = 0 THEN NaN ELSE 100 ** InverseCurve("arctan", y)
    BY <1>11 DEF convert_equnit_to_value, convert_value_to_equnit
  <2>2. "arctan" \in Turned
    BY DEF Turned
  <2>3. 100 \in NonZero
    BY SmallLiteral
  <2> QED  BY <2>1, <2>2, <2>3, QuotientUndone
<1> QED  BY <1>1, <1>2, <1>3, <1>4, <1>5, <1>6, <1>7, <1>8, <1>9, <1>10, <1>11

\* The logarithms of the inverse, as of acidity.
LEMMA OppositeCurves ==
  ASSUME NEW u, NEW x \in Finite, "equation" \in u.flags,
         eq_type(u) \in {4, 7}
  PROVE  EquationUndone(u, x)
<1> DEFINE t == eq_type(u)
<1>1. CASE t = 4
  <2>1. \A y : /\ convert_equnit_to_value(y, u) = Curve("exp10", 0 -- y)
               /\ convert_value_to_equnit(y, u)
                    = IF t < 16 /\ y = 0 THEN NaN ELSE 0 -- InverseCurve("exp10", y)
    BY <1>1 DEF convert_equnit_to_value, convert_value_to_equnit
  <2>2. "exp10" \in Turned
    BY DEF Turned
  <2> QED  BY <2>1, <2>2, OppositeUndone
<1>2. CASE t = 7
  <2>1. \A y : /\ convert_equnit_to_value(y, u) = Curve("exp50000", 0 -- y)
               /\ convert_value_to_equnit(y, u)
                    = IF t < 16 /\ y = 0 THEN NaN ELSE 0 -- InverseCurve("exp50000", y)
    BY <1>2 DEF convert_equnit_to_value, convert_value_to_equnit
  <2>2. "exp50000" \in Turned
    BY DEF Turned
  <2> QED  BY <2>1, <2>2, OppositeUndone
<1> QED  BY <1>1, <1>2

\* Those of the inverse of a power.
LEMMA MultipliedCurves ==
  ASSUME NEW u, NEW x \in Finite, "equation" \in u.flags,
         eq_type(u) \in {5, 6}
  PROVE  EquationUndone(u, x)
<1> DEFINE t == eq_type(u)
<1>1. CASE t = 5
  <2>1. \A y : /\ convert_equnit_to_value(y, u) = Curve("exp10", 2 ** (0 -- y))
               /\ convert_value_to_equnit(y, u)
                    = IF t < 16 /\ y = 0 THEN NaN ELSE (0 -- InverseCurve("exp10", y)) // 2
    BY <1>1 DEF convert_equnit_to_value, convert_value_to_equnit
  <2>2. "exp10" \in Turned
    BY DEF Turned
  <2>3. 2 \in NonZero
    BY SmallLiteral
  <2> QED  BY <2>1, <2>2, <2>3, MultipleUndone
<1>2. CASE t = 6
  <2>1. \A y : /\ convert_equnit_to_value(y, u) = Curve("exp10", 3 ** (0 -- y))
               /\ convert_value_to_equnit(y, u)
                    = IF t < 16 /\ y = 0 THEN NaN ELSE (0 -- InverseCurve("exp10", y)) // 3
    BY <1>2 DEF convert_equnit_to_value, convert_value_to_equnit
  <2>2. "exp10" \in Turned
    BY DEF Turned
  <2>3. 3 \in NonZero
    BY SmallLiteral
  <2> QED  BY <2>1, <2>2, <2>3, MultipleUndone
<1> QED  BY <1>1, <1>2

\* Two thirds are the inverse of three halves.
LEMMA ThreeHalves ==
  /\ Rational(3, 2) \in Finite /\ Rational(2, 3) \in Finite
  /\ Rational(3, 2) ** Rational(2, 3) = 1
<1>1. Rational(3, 2) \in Finite /\ Rational(3, 2) = 3 // 2
  BY SmallRational
<1>2. Rational(2, 3) \in Finite /\ Rational(2, 3) = 2 // 3
  BY SmallRational
<1>3. 2 \in NonZero
  BY SmallLiteral
<1>4. 3 \in NonZero
  BY SmallLiteral
<1>5. (3 // 2) ** (2 // 3) = 1
  BY <1>3, <1>4, Reciprocals
<1> QED  BY <1>1, <1>2, <1>5

\* The magnitudes of earthquakes.
LEMMA Magnitudes ==
  ASSUME NEW u, NEW x \in Finite, "equation" \in u.flags,
         eq_type(u) \in {29, 30}
  PROVE  EquationUndone(u, x)
<1> DEFINE t == eq_type(u)
<1>1. CASE t = 29
  <2>1. \A y : /\ convert_equnit_to_value(y, u) = Curve("exp10", (y ++ Rational(107, 10)) ** Rational(3, 2))
               /\ convert_value_to_equnit(y, u)
                    = IF t < 16 /\ y = 0 THEN NaN ELSE (Rational(2, 3) ** InverseCurve("exp10", y)) -- Rational(107, 10)
    BY <1>1 DEF convert_equnit_to_value, convert_value_to_equnit
  <2>2. "exp10" \in Turned
    BY DEF Turned
  <2>3. Rational(107, 10) \in Finite /\ Rational(3, 2) \in Finite /\ Rational(2, 3) \in Finite
        /\ Rational(3, 2) ** Rational(2, 3) = 1
    <3>1. Rational(107, 10) \in Finite
      BY SmallRational
    <3> QED  BY <3>1, ThreeHalves
  <2> QED  BY <2>1, <2>2, <2>3, SumUndone
<1>2. CASE t = 30
  <2>1. \A y : /\ convert_equnit_to_value(y, u) = Curve("exp10", (y ++ Rational(32, 10)) ** Rational(3, 2))
               /\ convert_value_to_equnit(y, u)
                    = IF t < 16 /\ y = 0 THEN NaN ELSE (Rational(2, 3) ** InverseCurve("exp10", y)) -- Rational(32, 10)
    BY <1>2 DEF convert_equnit_to_value, convert_value_to_equnit
  <2>2. "exp10" \in Turned
    BY DEF Turned
  <2>3. Rational(32, 10) \in Finite /\ Rational(3, 2) \in Finite /\ Rational(2, 3) \in Finite
        /\ Rational(3, 2) ** Rational(2, 3) = 1
    <3>1. Rational(32, 10) \in Finite
      BY SmallRational
    <3> QED  BY <3>1, ThreeHalves
  <2> QED  BY <2>1, <2>2, <2>3, SumUndone
<1> QED  BY <1>1, <1>2

\* The Fujita scale of tornadoes.
LEMMA WindForce ==
  ASSUME NEW u, NEW x \in Finite, "equation" \in u.flags,
         eq_type(u) \in {24}
  PROVE  EquationUndone(u, x)
<1> DEFINE t == eq_type(u)
<1>1. CASE t = 24
  <2>1. \A y : /\ convert_equnit_to_value(y, u) = Rational(141, 10) ** Curve("power1_5", y ++ 2)
               /\ convert_value_to_equnit(y, u)
                    = IF t < 16 /\ y = 0 THEN NaN ELSE InverseCurve("power1_5", y // Rational(141, 10)) -- 2
    BY <1>1 DEF convert_equnit_to_value, convert_value_to_equnit
  <2>2. "power1_5" \in Turned
    BY DEF Turned
  <2>3. Rational(141, 10) \in NonZero /\ 2 \in Finite
    <3>1. Rational(141, 10) \in NonZero
      BY SmallRational
    <3>2. 2 \in Finite
      BY SmallLiteral
    <3> QED  BY <3>1, <3>2
  <2> QED  BY <2>1, <2>2, <2>3, FactorUndone
<1> QED  BY <1>1

\* The scales of density.
LEMMA Densities ==
  ASSUME NEW u, NEW x \in Finite, "equation" \in u.flags, eq_type(u) \in {16, 17, 18}
  PROVE  EquationUndone(u, x)
<1> DEFINE t == eq_type(u)
<1>1. CASE t = 16
  <2> DEFINE k == Rational(1415, 10)
             l == Rational(1315, 10)
  <2>1. \A y : /\ convert_equnit_to_value(y, u) = k // (y ++ l)
               /\ convert_value_to_equnit(y, u) = (k // y) -- l
    BY <1>1 DEF convert_equnit_to_value, convert_value_to_equnit
  <2>2. k \in NonZero
    BY SmallRational
  <2>3. l \in Finite
    BY SmallRational
  <2> HIDE DEF k, l
  <2> QED  BY <2>1, <2>2, <2>3, QuotientBySum DEF EquationUndone
<1>2. CASE t = 17
  <2>1. \A y : /\ convert_equnit_to_value(y, u) = 140 // (130 ++ y)
               /\ convert_value_to_equnit(y, u) = (140 // y) -- 130
    BY <1>2 DEF convert_equnit_to_value, convert_value_to_equnit
  <2>2. 140 \in NonZero
    BY SmallLiteral
  <2>3. 130 \in Finite
    BY SmallLiteral
  <2>4. \A y \in Finite : y ++ 130 = 130 ++ y
    BY <2>2, <2>3, QuotientBySum
  <2>5. \A y \in Finite :
           /\ 140 // (y ++ 130) \in Finite =>
                140 // (y ++ 130) # 0 /\ (140 // (140 // (y ++ 130))) -- 130 = y
           /\ (140 // y) -- 130 \in Finite => 140 // (((140 // y) -- 130) ++ 130) = y
           /\ 140 // (y ++ 130) \in Number /\ (140 // y) -- 130 \in Number
    BY <2>2, <2>3, QuotientBySum
  <2> QED  BY <2>1, <2>4, <2>5 DEF EquationUndone
<1>3. CASE t = 18
  <2>1. \A y : /\ convert_equnit_to_value(y, u) = 145 // (145 -- y)
               /\ convert_value_to_equnit(y, u) = 145 ** (1 -- (1 // y))
    BY <1>3 DEF convert_equnit_to_value, convert_value_to_equnit
  <2>2. 145 \in NonZero
    BY SmallLiteral
  <2> QED  BY <2>1, <2>2, QuotientByDifference DEF EquationUndone
<1> QED  BY <1>1, <1>2, <1>3

\* The numbers that stand for no equation, and units that have none.
LEMMA NoEquation ==
  ASSUME NEW u, NEW x,
         "equation" \notin u.flags \/ eq_type(u) \in {19, 20, 21, 25, 26, 28, 31}
  PROVE  /\ convert_equnit_to_value(x, u) = x
         /\ convert_value_to_equnit(x, u) = x
<1>1. CASE "equation" \notin u.flags
  BY <1>1 DEF convert_equnit_to_value, convert_value_to_equnit
<1>2. CASE "equation" \in u.flags /\ eq_type(u) \in {19, 20, 21, 25, 26, 28, 31}
  BY <1>2 DEF convert_equnit_to_value, convert_value_to_equnit
<1> QED  BY <1>1, <1>2

\* Every equation but those of the wind scales.
LEMMA EquationLaws ==
  ASSUME NEW u, NEW x \in Finite,
         ~("equation" \in u.flags /\ eq_type(u) \in {22, 23})
  PROVE  /\ EquationUndone(u, x)
         /\ "equation" \notin u.flags => convert_equnit_to_value(x, u) = x
                                       /\ convert_value_to_equnit(x, u) = x
<1>1. CASE "equation" \notin u.flags \/ eq_type(u) \in {19, 20, 21, 25, 26, 28, 31}
  <2>1. \A y : /\ convert_equnit_to_value(y, u) = y
               /\ convert_value_to_equnit(y, u) = y
    BY <1>1, NoEquation
  <2>2. x \in Number
    BY NumberCases
  <2> QED  BY <2>1, <2>2 DEF EquationUndone
<1>2. CASE "equation" \in u.flags /\ eq_type(u) \notin {19, 20, 21, 25, 26, 28, 31}
  <2>1. eq_type(u) \in {0, 10, 8, 9, 14} \cup {1, 2, 3, 11, 12, 13, 15, 27}
                      \cup {4, 7} \cup {5, 6} \cup {29, 30} \cup {24} \cup {16, 17, 18}
    <3>1. eq_type(u) \in 0..31
      BY EquationTypeRange
    <3> QED  BY <1>2, <3>1
  <2>2. CASE eq_type(u) \in {0, 10, 8, 9, 14}
    BY <1>2, <2>2, PlainCurves
  <2>3. CASE eq_type(u) \in {1, 2, 3, 11, 12, 13, 15, 27}
    BY <1>2, <2>3, ScaledCurves
  <2>4. CASE eq_type(u) \in {4, 7}
    BY <1>2, <2>4, OppositeCurves
  <2>5. CASE eq_type(u) \in {5, 6}
    BY <1>2, <2>5, MultipliedCurves
  <2>6. CASE eq_type(u) \in {29, 30}
    BY <1>2, <2>6, Magnitudes
  <2>7. CASE eq_type(u) \in {24}
    BY <1>2, <2>7, WindForce
  <2>8. CASE eq_type(u) \in {16, 17, 18}
    BY <1>2, <2>8, Densities
  <2> QED  BY <1>2, <2>1, <2>2, <2>3, <2>4, <2>5, <2>6, <2>7, <2>8
<1> QED  BY <1>1, <1>2

(***************************************************************************)
(* NaN stays NaN, and conversions give numbers.                            *)
(***************************************************************************)
LEMMA NaNAbsorbs ==
  \A x : /\ NaN ++ x = NaN /\ x ++ NaN = NaN /\ NaN -- x = NaN /\ x -- NaN = NaN
         /\ NaN ** x = NaN /\ x ** NaN = NaN /\ NaN // x = NaN /\ x // NaN = NaN
BY DEF ++, --, **, //

\* No equation makes a number of what is none.
LEMMA EquationOfNaN ==
  ASSUME NEW u
  PROVE  convert_equnit_to_value(NaN, u) = NaN /\ convert_value_to_equnit(NaN, u) = NaN
<1>1. \A c : Curve(c, NaN) = NaN /\ InverseCurve(c, NaN) = NaN
  BY DEF Curve, InverseCurve
<1>2. eq_type(u) \in 0..31
  BY EquationTypeRange
<1>3. NaN # 0
  BY Digits
<1>4. convert_equnit_to_value(NaN, u) = NaN
  BY <1>1, <1>2, NaNAbsorbs DEF convert_equnit_to_value
<1>5. convert_value_to_equnit(NaN, u) = NaN
  BY <1>1, <1>2, <1>3, NaNAbsorbs DEF convert_value_to_equnit
<1> QED  BY <1>4, <1>5

\* An equation takes numbers to numbers.
LEMMA EquationTyped ==
  ASSUME NEW u, NEW x \in Number
  PROVE  /\ convert_equnit_to_value(x, u) \in Number
         /\ convert_value_to_equnit(x, u) \in Number
<1>1. CASE x = NaN
  BY <1>1, EquationOfNaN
<1>2. CASE x \in Finite /\ ~("equation" \in u.flags /\ eq_type(u) \in {22, 23})
  BY <1>2, EquationLaws DEF EquationUndone
<1>3. CASE x \in Finite /\ "equation" \in u.flags /\ eq_type(u) \in {22, 23}
  <2>1. /\ convert_equnit_to_value(x, u) \in {Curve("saffir", x), Curve("beaufort", x)}
        /\ convert_value_to_equnit(x, u) \in {Curve("toSaffir", x), Curve("toBeaufort", x)}
    BY <1>3 DEF convert_equnit_to_value, convert_value_to_equnit
  <2>2. {"saffir", "beaufort", "toSaffir", "toBeaufort"} \subseteq DOMAIN Degree
    BY DEF Degree
  <2>3. \A c \in {"saffir", "beaufort", "toSaffir", "toBeaufort"} : Curve(c, x) \in Number
    BY <2>2, CurveTyped
  <2> QED  BY <2>1, <2>3
<1> QED  BY <1>1, <1>2, <1>3 DEF Number

\* Numbers come of numbers only.
LEMMA EquationResults ==
  ASSUME NEW u, NEW x \in Number
  PROVE  /\ convert_equnit_to_value(x, u) \in Finite => x \in Finite
         /\ convert_value_to_equnit(x, u) \in Finite => x \in Finite
<1>1. NaN \notin Finite
  BY Digits
<1> QED  BY <1>1, EquationOfNaN DEF Number

(***************************************************************************)
(* The exponents of the units that the conversions name.                   *)
(***************************************************************************)
LEMMA NamedBases ==
  /\ {"meter", "second", "kilogram", "ampere", "radian"} \subseteq Base \ {"mole", "count"}
  /\ W.exp["ampere"] = 0 /\ A.exp["ampere"] = 1 /\ ohm.exp["ampere"] = -2
  /\ CubicMeter.exp["ampere"] = 0 /\ J.exp["ampere"] = 0 /\ Acceleration.exp["ampere"] = 0
  /\ CubicMeter.exp["kilogram"] = 0 /\ J.exp["kilogram"] = 1
  /\ CubicMeter.exp["meter"] = 3
  /\ Acceleration.exp["meter"] = 1 /\ Acceleration.exp["second"] = -2
  /\ \A q \in {W, V, A, ohm, S} : q.exp["radian"] = 0
  /\ kg.base.exp["kilogram"] = 1
  /\ km.base.exp["kilogram"] = 0 /\ km.base.exp["meter"] = 1 /\ km.base.exp["second"] = 0
<1>1. \A p, f : \A b \in Base : dim(p, f).exp[b] = IF b \in DOMAIN p THEN p[b] ELSE 0
  BY DEF dim
<1>2. {"meter", "second", "kilogram", "ampere", "radian"} \subseteq Base \ {"mole", "count"}
  BY BaseAssumption
<1>3. W.exp["ampere"] = 0 /\ W.exp["radian"] = 0
  BY <1>1, <1>2 DEF W
<1>4. A.exp["ampere"] = 1 /\ A.exp["radian"] = 0
  BY <1>1, <1>2 DEF A
<1>5. ohm.exp["ampere"] = -2 /\ ohm.exp["radian"] = 0
  BY <1>1, <1>2 DEF ohm
<1>6. V.exp["radian"] = 0
  BY <1>1, <1>2 DEF V
<1>7. S.exp["radian"] = 0
  BY <1>1, <1>2 DEF S
<1>8. CubicMeter.exp["ampere"] = 0 /\ CubicMeter.exp["kilogram"] = 0 /\ CubicMeter.exp["meter"] = 3
  BY <1>1, <1>2 DEF CubicMeter
<1>9. J.exp["ampere"] = 0 /\ J.exp["kilogram"] = 1
  BY <1>1, <1>2 DEF J
<1>10. Acceleration.exp["ampere"] = 0 /\ Acceleration.exp["meter"] = 1 /\ Acceleration.exp["second"] = -2
  BY <1>1, <1>2 DEF Acceleration
<1>11. kg.base.exp["kilogram"] = 1
  BY <1>1, <1>2 DEF kg, unit
<1>12. km.base.exp["kilogram"] = 0 /\ km.base.exp["meter"] = 1 /\ km.base.exp["second"] = 0
  BY <1>1, <1>2 DEF km, unit
<1> QED
  BY <1>2, <1>3, <1>4, <1>5, <1>6, <1>7, <1>8, <1>9, <1>10, <1>11, <1>12

\* The units of plain numbers, kilo, pu and the default unit.
LEMMA NoExponents ==
  \A b \in Base : kilo.base.exp[b] = 0 /\ pu.base.exp[b] = 0 /\ defunit.base.exp[b] = 0
<1>1. DOMAIN <<>> = {}
  OBVIOUS
<1>2. \A b \in Base : defunit.base.exp[b] = 0
  BY <1>1 DEF defunit, unit, dim
<1>3. \A b \in Base : pu.base.exp[b] = 0
  BY DEF pu, unit, PerUnit, Dimensionless
<1>4. \A b \in Base : kilo.base.exp[b] = 0
  BY DEF kilo, unit, Dimensionless
<1> QED  BY <1>2, <1>3, <1>4

\* The flags and multipliers of the named units.
LEMMA PlainNumbers ==
  /\ kilo.base.flags = {} /\ pu.base.flags = {"per_unit"} /\ kg.base.flags = {} /\ km.base.flags = {}
  /\ defunit.base.flags = {"per_unit", "i_flag"}
  /\ kilo.multiplier = 1000 /\ pu.multiplier = 1 /\ kg.multiplier = 1 /\ km.multiplier = 1000
  /\ defunit.multiplier = 1
<1>1. kilo.base.flags = {} /\ kilo.multiplier = 1000
  BY DEF kilo, unit, Dimensionless
<1>2. pu.base.flags = {"per_unit"} /\ pu.multiplier = 1
  BY DEF pu, unit, PerUnit, Dimensionless
<1>3. /\ kg.base.flags = {} /\ km.base.flags = {} /\ defunit.base.flags = {"per_unit", "i_flag"}
      /\ kg.multiplier = 1 /\ km.multiplier = 1000 /\ defunit.multiplier = 1
  BY DEF kg, km, defunit, unit, dim
<1> QED  BY <1>1, <1>2, <1>3

(***************************************************************************)
(* The units whose conversions can be undone.                              *)
(***************************************************************************)
Undoable == {u \in [multiplier : NonZero, base : UnitDataType] :
            /\ InFields(u.base)
            /\ ~(equation(u) /\ eq_type(u.base) \in {22, 23})}

\* What such a unit consists of.
LEMMA UndoableFacts ==
  ASSUME NEW u \in Undoable
  PROVE  /\ u.multiplier \in NonZero /\ u.multiplier \in Finite /\ u.multiplier # 0
         /\ u.base \in UnitDataType /\ InFields(u.base)
         /\ u.base.exp \in [Base -> Int]
         /\ \A b \in Base : u.base.exp[b] \in Int
         /\ ~(equation(u) /\ eq_type(u.base) \in {22, 23})
         /\ u = [multiplier |-> u.multiplier, base |-> u.base]
<1>1. u \in [multiplier : NonZero, base : UnitDataType] /\ InFields(u.base)
      /\ ~(equation(u) /\ eq_type(u.base) \in {22, 23})
  BY DEF Undoable
<1>2. u.multiplier \in NonZero /\ u.base \in UnitDataType
      /\ u = [multiplier |-> u.multiplier, base |-> u.base]
  BY <1>1
<1>3. u.base.exp \in [Base -> Int]
  BY <1>2 DEF UnitDataType
<1> QED  BY <1>1, <1>2, <1>3, Digits

(***************************************************************************)
(* Temperatures and pressures.                                             *)
(***************************************************************************)
LEMMA CelsiusUndone ==
  ASSUME NEW u \in Undoable, NEW x \in Finite
  PROVE  /\ ToCelsius(x, u) \in Finite /\ FromCelsius(x, u) \in Finite
         /\ FromCelsius(ToCelsius(x, u), u) = x
         /\ ToCelsius(FromCelsius(x, u), u) = x
<1>1. CASE u = degF
  <2>1. 32 \in Finite
    BY SmallLiteral
  <2>2. 5 \in NonZero
    BY SmallLiteral
  <2>3. 9 \in NonZero
    BY SmallLiteral
  <2>4. \A y : /\ ToCelsius(y, u) = ((y -- 32) ** 5) // 9
               /\ FromCelsius(y, u) = ((y ** 9) // 5) ++ 32
    BY <1>1 DEF ToCelsius, FromCelsius
  <2>5. \A y \in Finite : /\ y ** 5 \in Finite /\ y // 5 \in Finite
                          /\ (y ** 5) // 5 = y /\ (y // 5) ** 5 = y
    BY <2>2, QuotientLaws
  <2>6. \A y \in Finite : /\ y ** 9 \in Finite /\ y // 9 \in Finite
                          /\ (y ** 9) // 9 = y /\ (y // 9) ** 9 = y
    BY <2>3, QuotientLaws
  <2>7. \A y \in Finite : /\ y -- 32 \in Finite /\ y ++ 32 \in Finite
    BY <2>1, OnResidues
  <2>8. \A y \in Finite : /\ (y -- 32) ++ 32 = y /\ (y ++ 32) -- 32 = y
    BY <2>1, SumLaws
  <2> DEFINE s == x -- 32
             t == ((x ** 9) // 5)
  <2>9. s \in Finite /\ s ++ 32 = x /\ (s ** 5) // 9 \in Finite
    BY <2>5, <2>6, <2>7, <2>8
  <2>10. t \in Finite /\ t ++ 32 \in Finite /\ (t ++ 32) -- 32 = t
    BY <2>5, <2>6, <2>7, <2>8
  <2>11. (t ** 5) // 9 = x
    BY <2>5, <2>6
  <2>12. (((s ** 5) // 9) ** 9) // 5 = s
    BY <2>5, <2>6, <2>9
  <2> HIDE DEF s
  <2>13. ToCelsius(x, u) = (s ** 5) // 9 /\ FromCelsius(x, u) = t ++ 32
    BY <2>4 DEF s
  <2> HIDE DEF t
  <2>14. FromCelsius((s ** 5) // 9, u) = s ++ 32
    BY <2>4, <2>12
  <2>15. ToCelsius(t ++ 32, u) = (t ** 5) // 9
    BY <2>4, <2>10
  <2> QED  BY <2>9, <2>10, <2>11, <2>13, <2>14, <2>15
<1>2. CASE u # degF
  <2> DEFINE m == u.multiplier
             k == Bias(m)
  <2>1. m \in NonZero
    BY UndoableFacts
  <2>2. k \in Finite
    BY BiasTyped
  <2>3. \A y : /\ ToCelsius(y, u) = (y ** m) ++ k
               /\ FromCelsius(y, u) = (y -- k) // m
    BY <1>2 DEF ToCelsius, FromCelsius
  <2> HIDE DEF m, k
  <2>4. \A y \in Finite : /\ y ** m \in Finite /\ y // m \in Finite
                          /\ (y ** m) // m = y /\ (y // m) ** m = y
    BY <2>1, QuotientLaws
  <2>5. \A y \in Finite : /\ y -- k \in Finite /\ y ++ k \in Finite
    BY <2>2, OnResidues
  <2>6. \A y \in Finite : /\ (y -- k) ++ k = y /\ (y ++ k) -- k = y
    BY <2>2, SumLaws
  <2>7. (x ** m) ++ k \in Finite /\ (((x ** m) ++ k) -- k) // m = x
    BY <2>4, <2>5, <2>6
  <2>8. (x -- k) // m \in Finite /\ (((x -- k) // m) ** m) ++ k = x
    BY <2>4, <2>5, <2>6
  <2> QED  BY <2>3, <2>7, <2>8
<1> QED  BY <1>1, <1>2

\* Kelvins, and back from them.
Kelvins(x, u) == IF is_temperature(u) THEN ToCelsius(x, u) ++ KelvinOffset ELSE x ** u.multiplier
OfKelvins(k, u) == IF is_temperature(u) THEN FromCelsius(k -- KelvinOffset, u) ELSE k // u.multiplier

\* To kelvins and back, and from kelvins and back.
LEMMA KelvinsUndone ==
  ASSUME NEW u \in Undoable, NEW x \in Finite
  PROVE  /\ Kelvins(x, u) \in Finite /\ OfKelvins(x, u) \in Finite
         /\ OfKelvins(Kelvins(x, u), u) = x /\ Kelvins(OfKelvins(x, u), u) = x
<1> DEFINE o == KelvinOffset
<1>1. o \in Finite
  BY LiteralFacts
<1> HIDE DEF o
<1>2. \A y \in Finite : y -- o \in Finite /\ y ++ o \in Finite
  BY <1>1, OnResidues
<1>3. \A y \in Finite : (y -- o) ++ o = y /\ (y ++ o) -- o = y
  BY <1>1, SumLaws
<1>4. CASE is_temperature(u)
  <2>1. \A y : Kelvins(y, u) = ToCelsius(y, u) ++ o /\ OfKelvins(y, u) = FromCelsius(y -- o, u)
    BY <1>4 DEF Kelvins, OfKelvins, o
  <2>2. \A y \in Finite : /\ ToCelsius(y, u) \in Finite /\ FromCelsius(y, u) \in Finite
                          /\ FromCelsius(ToCelsius(y, u), u) = y
                          /\ ToCelsius(FromCelsius(y, u), u) = y
    BY CelsiusUndone
  <2> QED  BY <1>2, <1>3, <2>1, <2>2
<1>5. CASE ~is_temperature(u)
  <2>1. \A y : Kelvins(y, u) = y ** u.multiplier /\ OfKelvins(y, u) = y // u.multiplier
    BY <1>5 DEF Kelvins, OfKelvins
  <2>2. u.multiplier \in NonZero
    BY UndoableFacts
  <2> QED  BY <2>1, <2>2, QuotientLaws
<1> QED  BY <1>4, <1>5

\* A temperature on any scale, by way of kelvins.
LEMMA TemperatureUndone ==
  ASSUME NEW u \in Undoable, NEW v \in Undoable, NEW x \in Finite
  PROVE  /\ convertTemperature(x, u, v) \in Finite
         /\ convertTemperature(convertTemperature(x, u, v), v, u) = x
<1>1. \A y : /\ convertTemperature(y, u, v) = OfKelvins(Kelvins(y, u), v)
             /\ convertTemperature(y, v, u) = OfKelvins(Kelvins(y, v), u)
  BY DEF convertTemperature, Kelvins, OfKelvins
<1> DEFINE k == Kelvins(x, u)
<1>2. k \in Finite /\ OfKelvins(k, u) = x
  BY KelvinsUndone
<1> HIDE DEF k
<1>3. OfKelvins(k, v) \in Finite /\ Kelvins(OfKelvins(k, v), v) = k
  BY <1>2, KelvinsUndone
<1> QED  BY <1>1, <1>2, <1>3 DEF k

\* An absolute value and a gauge value: with an offset,
LEMMA PressureUndone ==
  ASSUME NEW m \in NonZero, NEW n \in NonZero, NEW x \in Finite, NEW o \in Finite
  PROVE  /\ ((x ** m) ++ o) // n \in Finite
         /\ ((x ** m) -- o) // n \in Finite
         /\ (((((x ** m) ++ o) // n) ** n) -- o) // m = x
         /\ (((((x ** m) -- o) // n) ** n) ++ o) // m = x
<1>1. \A y \in Finite : /\ y ** m \in Finite /\ y // m \in Finite
                        /\ (y ** m) // m = y /\ (y // m) ** m = y
  BY QuotientLaws
<1>2. \A y \in Finite : /\ y ** n \in Finite /\ y // n \in Finite
                        /\ (y ** n) // n = y /\ (y // n) ** n = y
  BY QuotientLaws
<1>3. \A y \in Finite : y -- o \in Finite /\ y ++ o \in Finite
  BY OnResidues
<1>4. \A y \in Finite : (y -- o) ++ o = y /\ (y ++ o) -- o = y
  BY SumLaws
<1>5. ((x ** m) ++ o) // n \in Finite /\ ((((x ** m) ++ o) // n) ** n) -- o = x ** m
  BY <1>1, <1>2, <1>3, <1>4
<1>6. ((x ** m) -- o) // n \in Finite /\ ((((x ** m) -- o) // n) ** n) ++ o = x ** m
  BY <1>1, <1>2, <1>3, <1>4
<1> QED  BY <1>1, <1>5, <1>6

\* or with a base given.
LEMMA GaugeUndone ==
  ASSUME NEW u \in Undoable, NEW v \in Undoable, NEW x \in Finite, NEW o \in Finite
  PROVE  /\ Scaled(x ++ o, u, v) \in Finite /\ Scaled(x, u, v) -- o \in Finite
         /\ Scaled(Scaled(x ++ o, u, v), v, u) -- o = x
         /\ Scaled((Scaled(x, u, v) -- o) ++ o, v, u) = x
<1>1. u.multiplier \in NonZero /\ v.multiplier \in NonZero
  BY UndoableFacts
<1>2. \A y \in Finite : Scaled(y, u, v) \in Finite /\ Scaled(Scaled(y, u, v), v, u) = y
  BY <1>1, Scaling
<1>3. \A y \in Finite : y -- o \in Finite /\ y ++ o \in Finite
  BY OnResidues
<1>4. \A y \in Finite : (y -- o) ++ o = y /\ (y ++ o) -- o = y
  BY SumLaws
<1> QED  BY <1>2, <1>3, <1>4

\* Flagged units of one quantity are convertible if it is the temperature or
\* the pressure, and what one direction does the other undoes.
FlagsConvert(u, v) ==
  is_temperature(u) \/ is_temperature(v) \/ has_same_base(u.base, Pa)

\* Temperatures and pressures: the rule applies both ways or neither, and
\* undoes what it did.
LEMMA FlaggedUndone ==
  ASSUME NEW u \in Undoable, NEW v \in Undoable, NEW x \in Finite, NEW basis \in Number,
         has_same_base(u.base, v.base)
  PROVE  /\ FlagsConvert(u, v) <=> FlagsConvert(v, u)
         /\ IsNumber(convertFlaggedUnits(x, u, v, basis)) <=> FlagsConvert(u, v)
         /\ FlagsConvert(u, v) =>
              /\ convertFlaggedUnits(x, u, v, basis) \in Finite
              /\ convertFlaggedUnits(convertFlaggedUnits(x, u, v, basis), v, u, basis) = x
<1>1. has_same_base(v.base, Pa) <=> has_same_base(u.base, Pa)
  BY DEF has_same_base
<1>2. FlagsConvert(u, v) <=> FlagsConvert(v, u)
  BY <1>1 DEF FlagsConvert
<1>n. \A y \in Finite : IsNumber(y)
  BY Digits DEF IsNumber
<1>3. CASE ~FlagsConvert(u, v)
  <2>1. convertFlaggedUnits(x, u, v, basis) = NaN
    BY <1>3 DEF convertFlaggedUnits, FlagsConvert
  <2> QED  BY <1>2, <1>3, <2>1 DEF IsNumber
<1>4. CASE is_temperature(u) \/ is_temperature(v)
  <2>1. \A y : /\ convertFlaggedUnits(y, u, v, basis) = convertTemperature(y, u, v)
               /\ convertFlaggedUnits(y, v, u, basis) = convertTemperature(y, v, u)
    BY <1>4 DEF convertFlaggedUnits
  <2>2. FlagsConvert(u, v)
    BY <1>4 DEF FlagsConvert
  <2> QED  BY <1>2, <1>n, <2>1, <2>2, TemperatureUndone
<1>5. CASE ~is_temperature(u) /\ ~is_temperature(v) /\ has_same_base(u.base, Pa)
  <2>f. FlagsConvert(u, v)
    BY <1>5 DEF FlagsConvert
  <2>1. CASE e_flag(u) = e_flag(v)
    <3>1. \A y : /\ convertFlaggedUnits(y, u, v, basis) = Scaled(y, u, v)
                 /\ convertFlaggedUnits(y, v, u, basis) = Scaled(y, v, u)
      BY <1>1, <1>5, <2>1 DEF convertFlaggedUnits
    <3>2. Scaled(x, u, v) \in Finite /\ Scaled(Scaled(x, u, v), v, u) = x
      BY UndoableFacts, Scaling
    <3> QED  BY <1>2, <1>n, <2>f, <3>1, <3>2
  <2>2. CASE e_flag(u) # e_flag(v) /\ basis = NaN
    <3>0. atm \in Finite
      BY LiteralFacts
    <3> DEFINE up == ((x ** u.multiplier) ++ atm) // v.multiplier
               down == ((x ** u.multiplier) -- atm) // v.multiplier
    <3>a. /\ up \in Finite /\ ((up ** v.multiplier) -- atm) // u.multiplier = x
          /\ down \in Finite /\ ((down ** v.multiplier) ++ atm) // u.multiplier = x
      <4>1. u.multiplier \in NonZero /\ v.multiplier \in NonZero
        BY UndoableFacts
      <4> QED  BY <3>0, <4>1, PressureUndone
    <3>1. CASE e_flag(u)
      <4>1. \A y : /\ convertFlaggedUnits(y, u, v, basis) = ((y ** u.multiplier) ++ atm) // v.multiplier
                   /\ convertFlaggedUnits(y, v, u, basis) = ((y ** v.multiplier) -- atm) // u.multiplier
        BY <1>1, <1>5, <2>2, <3>1 DEF convertFlaggedUnits, e_flag
      <4> QED  BY <1>2, <1>n, <2>f, <3>a, <4>1
    <3>2. CASE ~e_flag(u)
      <4>1. \A y : /\ convertFlaggedUnits(y, u, v, basis) = ((y ** u.multiplier) -- atm) // v.multiplier
                   /\ convertFlaggedUnits(y, v, u, basis) = ((y ** v.multiplier) ++ atm) // u.multiplier
        BY <1>1, <1>5, <2>2, <3>2 DEF convertFlaggedUnits, e_flag
      <4> QED  BY <1>2, <1>n, <2>f, <3>a, <4>1
    <3> QED  BY <3>1, <3>2
  <2>3. CASE e_flag(u) # e_flag(v) /\ basis # NaN
    <3>0. basis \in Finite
      BY <2>3 DEF Number
    <3>1. CASE e_flag(u)
      <4>1. \A y : /\ convertFlaggedUnits(y, u, v, basis) = Scaled(y ++ basis, u, v)
                   /\ convertFlaggedUnits(y, v, u, basis) = Scaled(y, v, u) -- basis
        BY <1>1, <1>5, <2>3, <3>1 DEF convertFlaggedUnits, e_flag
      <4> QED  BY <1>2, <1>n, <2>f, <3>0, <4>1, GaugeUndone
    <3>2. CASE ~e_flag(u)
      <4>1. \A y : /\ convertFlaggedUnits(y, u, v, basis) = Scaled(y, u, v) -- basis
                   /\ convertFlaggedUnits(y, v, u, basis) = Scaled(y ++ basis, v, u)
        BY <1>1, <1>5, <2>3, <3>2 DEF convertFlaggedUnits, e_flag
      <4> QED  BY <1>2, <1>n, <2>f, <3>0, <4>1, GaugeUndone
    <3> QED  BY <3>1, <3>2
  <2> QED  BY <2>1, <2>2, <2>3
<1> QED  BY <1>3, <1>4, <1>5 DEF FlagsConvert

(***************************************************************************)
(* Counting units.                                                         *)
(***************************************************************************)
LEMMA PowersInvert ==
  ASSUME NEW p \in NonZero, NEW n \in -2..2
  PROVE  /\ IntegerPower(p, n) \in NonZero
         /\ \A x \in Finite : x ** IntegerPower(p, -n) = x // IntegerPower(p, n)
<1>1. p \in Finite /\ 1 \in Finite /\ 1 \in NonZero
  BY Digits
<1>2. PowerMod[<<p, 0>>] = 1 /\ PowerMod[<<p, 1>>] = p /\ PowerMod[<<p, 2>>] = (p * p) % Prime
  BY <1>1, SmallPowers
<1>3. (p * p) % Prime = p ** p
  BY <1>1, OnResidues
<1>4. p ** p \in NonZero
  BY NonZeroClosure
<1>5. \A y \in NonZero : /\ 1 // y \in NonZero /\ 1 // (1 // y) = y
                         /\ \A x \in Finite : x // y = x ** (1 // y)
  <2> TAKE y \in NonZero
  <2>a. 1 // y \in NonZero
    BY <1>1, ReciprocalLaws
  <2>1. \A x \in Finite : x // y = x ** (1 // y)
    BY ReciprocalLaws
  <2>2. 1 // (1 // y) = y
    BY NonZeroClosure
  <2> QED  BY <2>a, <2>1, <2>2
<1>6. \A y \in NonZero, x \in Finite : x // (1 // y) = x ** y
  <2> TAKE y \in NonZero, x \in Finite
  <2>1. 1 // y \in NonZero /\ 1 // (1 // y) = y
    BY <1>5
  <2>2. x // (1 // y) = x ** (1 // (1 // y))
    BY <2>1, ReciprocalLaws
  <2> QED  BY <2>1, <2>2
<1>7. CASE n = 0
  <2>1. IntegerPower(p, n) = 1 /\ IntegerPower(p, -n) = 1
    BY <1>2, <1>7 DEF IntegerPower
  <2>2. \A x \in Finite : x ** 1 = x
    BY <1>1, ProductLaws
  <2>3. \A x \in Finite : x // 1 = x
    BY <1>1, QuotientLaws
  <2> QED  BY <1>1, <2>1, <2>2, <2>3
<1>8. ASSUME NEW q \in NonZero, IntegerPower(p, n) = q, IntegerPower(p, -n) = 1 // q
      PROVE  /\ IntegerPower(p, n) \in NonZero
             /\ \A x \in Finite : x ** IntegerPower(p, -n) = x // IntegerPower(p, n)
  BY <1>5, <1>8
<1>9. ASSUME NEW q \in NonZero, IntegerPower(p, n) = 1 // q, IntegerPower(p, -n) = q
      PROVE  /\ IntegerPower(p, n) \in NonZero
             /\ \A x \in Finite : x ** IntegerPower(p, -n) = x // IntegerPower(p, n)
  BY <1>5, <1>6, <1>9
<1>10. CASE n = 1
  <2>1. IntegerPower(p, n) = p /\ IntegerPower(p, -n) = 1 // p
    BY <1>2, <1>10 DEF IntegerPower
  <2> QED  BY <1>8, <2>1
<1>11. CASE n = 2
  <2>1. IntegerPower(p, n) = p ** p /\ IntegerPower(p, -n) = 1 // (p ** p)
    BY <1>2, <1>3, <1>11 DEF IntegerPower
  <2> QED  BY <1>4, <1>8, <2>1
<1>12. CASE n = -1
  <2>1. IntegerPower(p, n) = 1 // p /\ IntegerPower(p, -n) = p
    BY <1>2, <1>12 DEF IntegerPower
  <2> QED  BY <1>9, <2>1
<1>13. CASE n = -2
  <2>1. IntegerPower(p, n) = 1 // (p ** p) /\ IntegerPower(p, -n) = p ** p
    BY <1>2, <1>3, <1>13 DEF IntegerPower
  <2> QED  BY <1>4, <1>9, <2>1
<1> QED  BY <1>7, <1>10, <1>11, <1>12, <1>13

\* A factor one way is divided out the other way.
LEMMA FactorsUndone ==
  ASSUME NEW u \in Undoable, NEW v \in Undoable, NEW f \in NonZero, NEW g,
         \A z \in Finite : z ** g = z // f
  PROVE  \A x \in Finite : /\ Scaled(x ** f, u, v) \in Finite
                           /\ Scaled(Scaled(x ** f, u, v) ** g, v, u) = x
<1> TAKE x \in Finite
<1> DEFINE y == Scaled(x ** f, u, v)
<1>1. u.multiplier \in NonZero /\ v.multiplier \in NonZero
  BY UndoableFacts
<1>2. Scaled(y // f, v, u) = x /\ x ** f \in Finite
  BY <1>1, ScalingByFactor
<1>3. y \in Finite
  BY <1>1, <1>2, Scaling
<1> HIDE DEF y
<1> QED  BY <1>2, <1>3 DEF y

\* What a factor and two multipliers scale is a residue.
LEMMA ScaledFactors ==
  ASSUME NEW u, NEW v, u.multiplier \in NonZero, v.multiplier \in NonZero,
         NEW f \in NonZero, NEW g, \A z \in Finite : z ** g = z // f
  PROVE  \A x \in Finite : Scaled(x ** g, v, u) \in Finite
<1> TAKE x \in Finite
<1>1. x // f \in Finite /\ x ** g = x // f
  BY QuotientLaws
<1> QED  BY <1>1, Scaling

\* Counting units: a rule applies both ways or neither, to every value, and
\* undoes what it did.
LEMMA CountingUndone ==
  ASSUME NEW u \in Undoable, NEW v \in Undoable, NEW x \in Finite
  PROVE  \/ \A y : convertCountingUnits(y, u, v) = NaN /\ convertCountingUnits(y, v, u) = NaN
         \/ /\ convertCountingUnits(x, u, v) \in Finite
            /\ convertCountingUnits(convertCountingUnits(x, u, v), v, u) = x
            /\ \A y \in Finite : /\ convertCountingUnits(y, u, v) \in Finite
                                 /\ convertCountingUnits(y, v, u) \in Finite
<1> DEFINE from == u.base
           to == v.base
           m == to.exp["mole"] - from.exp["mole"]
           r == to.exp["radian"] - from.exp["radian"]
<1>1. {"mole", "radian", "count"} \subseteq Base
  BY BaseAssumption
<1>2. \A b \in Base : from.exp[b] \in Int /\ to.exp[b] \in Int
  BY UndoableFacts
<1>3. m \in Int /\ r \in Int /\ -m = from.exp["mole"] - to.exp["mole"]
      /\ -r = from.exp["radian"] - to.exp["radian"] /\ -(-m) = m
  BY <1>1, <1>2
<1>4. \A b, c : Replaces(to, from, b, c) <=> Replaces(from, to, b, c)
  BY DEF Replaces
<1> DEFINE Plain_ == m = 0 /\ r = 0 /\ 0 \in {from.exp["count"], to.exp["count"]}
           Turns == m = 0 /\ Replaces(from, to, "radian", "count")
           Moles == r = 0 /\ Replaces(from, to, "mole", "count")
           p == (2 * Pi) % Prime
<1>5. \A y : convertCountingUnits(y, u, v) =
               IF Plain_ THEN Scaled(y, u, v)
               ELSE IF Turns
               THEN IF r \notin -2..2 THEN NaN ELSE Scaled(y ** IntegerPower(p, r), u, v)
               ELSE IF Moles
               THEN IF m \notin -1..1 THEN NaN ELSE Scaled(y ** IntegerPower(Avogadro, -m), u, v)
               ELSE NaN
  BY DEF convertCountingUnits
<1>6. \A y : convertCountingUnits(y, v, u) =
               IF Plain_ THEN Scaled(y, v, u)
               ELSE IF Turns
               THEN IF r \notin -2..2 THEN NaN ELSE Scaled(y ** IntegerPower(p, -r), v, u)
               ELSE IF Moles
               THEN IF m \notin -1..1 THEN NaN ELSE Scaled(y ** IntegerPower(Avogadro, m), v, u)
               ELSE NaN
  <2> DEFINE mm == from.exp["mole"] - to.exp["mole"]
             rr == from.exp["radian"] - to.exp["radian"]
             PlainBack == mm = 0 /\ rr = 0 /\ 0 \in {to.exp["count"], from.exp["count"]}
  <2>1. \A y : convertCountingUnits(y, v, u) =
               IF PlainBack THEN Scaled(y, v, u)
               ELSE IF mm = 0 /\ Replaces(to, from, "radian", "count")
               THEN IF rr \notin -2..2 THEN NaN ELSE Scaled(y ** IntegerPower(p, rr), v, u)
               ELSE IF rr = 0 /\ Replaces(to, from, "mole", "count")
               THEN IF mm \notin -1..1 THEN NaN ELSE Scaled(y ** IntegerPower(Avogadro, -mm), v, u)
               ELSE NaN
    BY DEF convertCountingUnits
  <2>2. mm = -m /\ rr = -r /\ -mm = m
    BY <1>3
  <2> HIDE DEF m, r, mm, rr, p, from, to
  <2>3. mm = 0 <=> m = 0
    BY <1>3, <2>2
  <2>4. rr = 0 <=> r = 0
    BY <1>3, <2>2
  <2>5. (rr \in -2..2 <=> r \in -2..2) /\ (mm \in -1..1 <=> m \in -1..1)
    BY <1>3, <2>2
  <2>6. PlainBack <=> Plain_
    BY <2>3, <2>4
  <2> HIDE DEF Plain_, PlainBack
  <2> QED  BY <1>4, <2>1, <2>2, <2>3, <2>4, <2>5, <2>6
<1>7. p \in NonZero /\ Avogadro \in NonZero
  BY LiteralFacts
<1>8. u.multiplier \in NonZero /\ v.multiplier \in NonZero
  BY UndoableFacts
<1> HIDE DEF m, r, from, to, p, Plain_, Turns, Moles
<1>9. CASE Plain_
  <2>1. \A y : /\ convertCountingUnits(y, u, v) = Scaled(y, u, v)
               /\ convertCountingUnits(y, v, u) = Scaled(y, v, u)
    BY <1>5, <1>6, <1>9
  <2>2. \A y \in Finite : /\ Scaled(y, u, v) \in Finite /\ Scaled(Scaled(y, u, v), v, u) = y
                          /\ Scaled(y, v, u) \in Finite
    BY <1>8, Scaling
  <2> QED  BY <2>1, <2>2
<1>10. CASE ~Plain_ /\ Turns /\ r \in -2..2
  <2> DEFINE f == IntegerPower(p, r)
             g == IntegerPower(p, -r)
  <2>1. \A y : /\ convertCountingUnits(y, u, v) = Scaled(y ** f, u, v)
               /\ convertCountingUnits(y, v, u) = Scaled(y ** g, v, u)
    BY <1>5, <1>6, <1>10
  <2>2. r \in -2..2 /\ p \in NonZero
    BY <1>7, <1>10
  <2>3. f \in NonZero /\ \A z \in Finite : z ** g = z // f
    BY <2>2, PowersInvert
  <2> HIDE DEF f, g
  <2>4. \A y \in Finite : /\ Scaled(y ** f, u, v) \in Finite
                          /\ Scaled(Scaled(y ** f, u, v) ** g, v, u) = y
    BY <2>3, FactorsUndone
  <2>5. \A y \in Finite : Scaled(y ** g, v, u) \in Finite
    BY <1>8, <2>3, ScaledFactors
  <2> QED  BY <2>1, <2>4, <2>5
<1>11. CASE ~Plain_ /\ ~Turns /\ Moles /\ m \in -1..1
  <2> DEFINE f == IntegerPower(Avogadro, -m)
             g == IntegerPower(Avogadro, m)
  <2>1. \A y : /\ convertCountingUnits(y, u, v) = Scaled(y ** f, u, v)
               /\ convertCountingUnits(y, v, u) = Scaled(y ** g, v, u)
    BY <1>5, <1>6, <1>11
  <2>2. -m \in -2..2 /\ -(-m) = m
    BY <1>3, <1>11
  <2>3. f \in NonZero /\ \A z \in Finite : z ** g = z // f
    <3>1. f \in NonZero /\ \A z \in Finite : z ** IntegerPower(Avogadro, -(-m)) = z // f
      BY <1>7, <2>2, PowersInvert
    <3> QED  BY <2>2, <3>1
  <2> HIDE DEF f, g
  <2>4. \A y \in Finite : /\ Scaled(y ** f, u, v) \in Finite
                          /\ Scaled(Scaled(y ** f, u, v) ** g, v, u) = y
    BY <2>3, FactorsUndone
  <2>5. \A y \in Finite : Scaled(y ** g, v, u) \in Finite
    BY <1>8, <2>3, ScaledFactors
  <2> QED  BY <2>1, <2>4, <2>5
<1>12. CASE /\ ~Plain_
            /\ ~(Turns /\ r \in -2..2)
            /\ ~(~Turns /\ Moles /\ m \in -1..1)
  BY <1>5, <1>6, <1>12
<1> QED  BY <1>9, <1>10, <1>11, <1>12

(***************************************************************************)
(* Inverses.                                                               *)
(***************************************************************************)
LEMMA InverseOfInverse ==
  ASSUME NEW u \in UnitDataType, InFields(u)
  PROVE  Inv(Inv(u)).exp = u.exp
<1>1. u.exp \in [Base -> Int]
  BY DEF UnitDataType
<1>2. \A b \in Base : Wrap(b, -Wrap(b, -u.exp[b])) = u.exp[b]
  <2> TAKE b \in Base
  <2>1. u.exp[b] \in Int /\ -u.exp[b] \in Int /\ -(-u.exp[b]) = u.exp[b]
    BY <1>1
  <2>2. Wrap(b, -Wrap(b, -u.exp[b])) = Wrap(b, -(-u.exp[b]))
    BY <2>1, WrapArithmetic
  <2>3. Wrap(b, u.exp[b]) = u.exp[b]
    BY <2>1, WrapFits DEF InFields
  <2> QED  BY <2>1, <2>2, <2>3
<1>3. Inv(Inv(u)).exp = [b \in Base |-> Wrap(b, -Wrap(b, -u.exp[b]))]
  BY DEF Inv, unit_data
<1> QED  BY <1>1, <1>2, <1>3

\* If one unit is the inverse of another, that is the inverse of the one.
LEMMA InvertsBothWays ==
  ASSUME NEW u \in Undoable, NEW v \in Undoable, Inverts(u, v)
  PROVE  Inverts(v, u)
<1>1. v.base \in UnitDataType /\ InFields(v.base)
  BY UndoableFacts
<1>2. Inv(Inv(v.base)).exp = v.base.exp
  BY <1>1, InverseOfInverse
<1>3. u.base.exp = Inv(v.base).exp
  BY DEF Inverts, has_same_base
<1>4. Inv(u.base).exp = Inv(Inv(v.base)).exp
  BY <1>3 DEF Inv, unit_data
<1> QED  BY <1>2, <1>4 DEF Inverts, has_same_base

\* The inverse of a value, with the multipliers of both units.
LEMMA InversionUndone ==
  ASSUME NEW m \in NonZero, NEW n \in NonZero, NEW x \in Finite,
         1 // ((x ** m) ** n) \in Finite
  PROVE  1 // (((1 // ((x ** m) ** n)) ** n) ** m) = x
<1> DEFINE p == (x ** m) ** n
           y == 1 // p
<1>1. m \in Finite /\ n \in Finite /\ 1 \in Finite /\ 1 \in NonZero /\ NaN \notin Finite
  BY Digits
<1>2. x ** m \in Finite
  BY <1>1, OnResidues
<1>3. p \in Finite
  BY <1>1, <1>2, OnResidues
<1> HIDE DEF p
<1>4. p \in NonZero
  <2>1. p = 0 => 1 // p = NaN
    BY <1>1, <1>3, OnResidues
  <2>2. p # 0
    BY <1>1, <2>1 DEF p
  <2> QED  BY <1>3, <2>2, Digits
<1>5. y \in NonZero /\ y \in Finite /\ y ** p = 1
  BY <1>1, <1>4, ReciprocalLaws
<1> HIDE DEF y
<1>6. (y ** n) ** m \in Finite
  <2>1. y ** n \in Finite
    BY <1>1, <1>5, OnResidues
  <2> QED  BY <1>1, <2>1, OnResidues
<1>7. ((y ** n) ** m) ** x = 1
  <2>1. (y ** n) ** m = y ** (n ** m) /\ n ** m \in Finite
    BY <1>1, <1>5, ProductLaws, OnResidues
  <2>2. (y ** (n ** m)) ** x = y ** ((n ** m) ** x)
    BY <1>5, <2>1, ProductLaws
  <2>3. (n ** m) ** x = x ** (n ** m)
    BY <2>1, ProductLaws
  <2>4. n ** m = m ** n
    BY <1>1, ProductLaws
  <2>5. x ** (m ** n) = (x ** m) ** n
    BY <1>1, ProductLaws
  <2> QED  BY <1>5, <2>1, <2>2, <2>3, <2>4, <2>5 DEF p
<1>8. 1 // ((y ** n) ** m) = x
  BY <1>6, <1>7, InverseUnique
<1> QED  BY <1>8 DEF y, p

(***************************************************************************)
(* Gas, weights, and the changes of per-unit quantities.                   *)
(***************************************************************************)
LEMMA GasUndone ==
  ASSUME NEW u \in Undoable, NEW v \in Undoable, NEW x \in Finite
  PROVE  \/ \A y : extraValidConversions(y, u, v) = NaN /\ extraValidConversions(y, v, u) = NaN
         \/ /\ extraValidConversions(x, u, v) \in Finite
            /\ extraValidConversions(extraValidConversions(x, u, v), v, u) = x
            /\ \A y \in Finite : /\ extraValidConversions(y, u, v) \in Finite
                                 /\ extraValidConversions(y, v, u) \in Finite
<1>1. scm \in NonZero
  BY LiteralFacts
<1>2. u.multiplier \in NonZero /\ v.multiplier \in NonZero
  BY UndoableFacts
<1>3. \A y \in Finite : /\ y ** scm \in Finite /\ y // scm \in Finite
                        /\ Scaled(Scaled(y ** scm, u, v) // scm, v, u) = y
                        /\ Scaled(Scaled(y // scm, u, v) ** scm, v, u) = y
  BY <1>1, <1>2, ScalingByFactor
<1>4. \A y \in Finite : Scaled(y, u, v) \in Finite /\ Scaled(y, v, u) \in Finite
  BY <1>2, Scaling
<1>5. CubicMeter.exp # J.exp
  BY NamedBases
<1>6. CASE has_same_base(u.base, CubicMeter) /\ has_same_base(v.base, J)
  <2>1. \A y : /\ extraValidConversions(y, u, v) = Scaled(y ** scm, u, v)
               /\ extraValidConversions(y, v, u) = Scaled(y // scm, v, u)
    BY <1>5, <1>6 DEF extraValidConversions, has_same_base
  <2> QED  BY <1>3, <1>4, <2>1
<1>7. CASE has_same_base(u.base, J) /\ has_same_base(v.base, CubicMeter)
  <2>1. \A y : /\ extraValidConversions(y, u, v) = Scaled(y // scm, u, v)
               /\ extraValidConversions(y, v, u) = Scaled(y ** scm, v, u)
    BY <1>5, <1>7 DEF extraValidConversions, has_same_base
  <2> QED  BY <1>3, <1>4, <2>1
<1>8. CASE /\ ~(has_same_base(u.base, CubicMeter) /\ has_same_base(v.base, J))
           /\ ~(has_same_base(u.base, J) /\ has_same_base(v.base, CubicMeter))
  BY <1>8 DEF extraValidConversions
<1> QED  BY <1>6, <1>7, <1>8

\* A weight is not the mass of its mass.
LEMMA WeightsAndMasses ==
  ASSUME NEW u \in Undoable, NEW v \in Undoable, WeightToMass(u, v)
  PROVE  ~WeightToMass(v, u)
<1>1. "meter" \in Base /\ Acceleration.exp["meter"] = 1
  BY NamedBases
<1> DEFINE d == u.base.exp["meter"] - v.base.exp["meter"]
           e == v.base.exp["meter"] - u.base.exp["meter"]
<1>2. u.base.exp["meter"] \in Int /\ v.base.exp["meter"] \in Int
  BY <1>1, UndoableFacts
<1>3. d \in Int /\ e \in Int /\ e = -d
  BY <1>2
<1>4. Divides(u.base, v.base).exp["meter"] = Wrap("meter", d)
      /\ Divides(v.base, u.base).exp["meter"] = Wrap("meter", e)
  BY <1>1 DEF Divides, unit_data
<1> HIDE DEF d, e
<1>5. Wrap("meter", d) = 1
  BY <1>1, <1>4 DEF WeightToMass, has_same_base
<1>6. Wrap("meter", e) = -1
  <2>1. Wrap("meter", -Wrap("meter", d)) = Wrap("meter", -d)
    BY <1>1, <1>3, WrapArithmetic
  <2>2. Half["meter"] \in {2, 4, 8, 32, 128}
    BY <1>1, HalfAssumption
  <2>3. MinVal("meter") <= -1 /\ -1 <= MaxVal("meter")
    BY <2>2 DEF MinVal, MaxVal
  <2>4. Wrap("meter", -1) = -1
    BY <1>1, <2>3, WrapFits
  <2> QED  BY <1>3, <1>5, <2>1, <2>4
<1> QED  BY <1>1, <1>4, <1>6 DEF WeightToMass, has_same_base

\* A weight and the mass it is the weight of.
LEMMA WeightUndone ==
  ASSUME NEW u \in Undoable, NEW v \in Undoable, NEW x \in Finite,
         NEW a, NEW b, NEW c, NEW d,
         WeightToMass(u, v) \/ WeightToMass(v, u)
  PROVE  /\ otherUsefulConversions(x, u, v, a, b) \in Finite
         /\ otherUsefulConversions(otherUsefulConversions(x, u, v, a, b), v, u, c, d) = x
<1> DEFINE g == standard_gravity
<1>1. g \in NonZero
  BY LiteralFacts
<1>2. u.multiplier \in NonZero /\ v.multiplier \in NonZero
  BY UndoableFacts
<1>3. \A y \in Finite : /\ y ** g \in Finite /\ y // g \in Finite
                        /\ Scaled(Scaled(y ** g, u, v) // g, v, u) = y
                        /\ Scaled(Scaled(y // g, u, v) ** g, v, u) = y
  BY <1>1, <1>2, ScalingByFactor
<1>4. \A y \in Finite : Scaled(y, u, v) \in Finite
  BY <1>2, Scaling
<1>5. CASE WeightToMass(u, v)
  <2>1. ~WeightToMass(v, u)
    BY <1>5, WeightsAndMasses
  <2>2. \A y : /\ otherUsefulConversions(y, u, v, a, b) = Scaled(y // g, u, v)
               /\ otherUsefulConversions(y, v, u, c, d) = Scaled(y ** g, v, u)
    BY <1>5, <2>1 DEF otherUsefulConversions
  <2> QED  BY <1>3, <1>4, <2>2
<1>6. CASE WeightToMass(v, u)
  <2>1. ~WeightToMass(u, v)
    BY <1>6, WeightsAndMasses
  <2>2. \A y : /\ otherUsefulConversions(y, u, v, a, b) = Scaled(y ** g, u, v)
               /\ otherUsefulConversions(y, v, u, c, d) = Scaled(y // g, v, u)
    BY <1>6, <2>1 DEF otherUsefulConversions
  <2> QED  BY <1>3, <1>4, <2>2
<1> QED  BY <1>5, <1>6

\* Quantities among which a per-unit value converts as it is or inverted.
Related(u, v) ==
  LET Among(p, q) == has_same_base(u.base, p) /\ has_same_base(v.base, q)
  IN \E p, q \in {A, W, ohm} : p # q /\ Among(p, q)

\* The conversions between related per-unit quantities.
LEMMA KnownUndone ==
  ASSUME NEW u, NEW v, NEW x \in Finite
  PROVE  LET y == knownConversions(x, u.base, v.base)
         IN /\ y \in Number
            /\ IsNumber(y) => knownConversions(y, v.base, u.base) = x
            /\ ~IsNumber(y) /\ Related(u, v) => x = 0
            /\ IsNumber(y) => Related(u, v)
<1>1. W.exp # A.exp /\ A.exp # ohm.exp /\ W.exp # ohm.exp
  BY NamedBases
<1>2. 1 \in Finite /\ NaN \notin Finite /\ \A r \in Finite : r # 0 => r \in NonZero
  BY Digits
<1>3. x = 0 => 1 // x = NaN
  BY <1>2, OnResidues
<1>4. x # 0 => 1 // x \in NonZero /\ 1 // (1 // x) = x
  BY <1>2, NonZeroClosure
<1>n. \A r \in NonZero : r \in Finite
  BY Digits
<1> DEFINE Among(p, q) == has_same_base(u.base, p) /\ has_same_base(v.base, q)
           inverse == Among(ohm, W) \/ Among(ohm, A) \/ Among(A, ohm) \/ Among(W, ohm)
           same == Among(A, W) \/ Among(W, A)
<1>5. CASE inverse
  <2>1. \A y : /\ knownConversions(y, u.base, v.base) = 1 // y
               /\ knownConversions(y, v.base, u.base) = 1 // y
    BY <1>5 DEF knownConversions
  <2>2. Related(u, v)
    BY <1>1, <1>5 DEF Related
  <2> QED  BY <1>2, <1>3, <1>4, <1>n, <2>1, <2>2 DEF IsNumber, Number
<1>6. CASE ~inverse /\ same
  <2>1. \A y : /\ knownConversions(y, u.base, v.base) = y
               /\ knownConversions(y, v.base, u.base) = y
    BY <1>1, <1>6 DEF knownConversions, has_same_base
  <2>2. Related(u, v)
    BY <1>1, <1>6 DEF Related
  <2> QED  BY <1>2, <2>1, <2>2 DEF IsNumber, Number
<1>7. CASE ~inverse /\ ~same
  <2>1. knownConversions(x, u.base, v.base) = NaN
    BY <1>7 DEF knownConversions
  <2>2. ~Related(u, v)
    BY <1>7 DEF Related
  <2> QED  BY <2>1, <2>2 DEF IsNumber, Number
<1> QED  BY <1>5, <1>6, <1>7

\* Between a per-unit value and one that is not, by way of the base.
LEMMA PerUnitUndone ==
  ASSUME NEW u \in Undoable, NEW v \in Undoable, NEW x \in Finite, NEW base \in NonZero,
         per_unit(u) # per_unit(v)
  PROVE  \/ \A y : BetweenPerUnit(y, u, v, base) = NaN /\ BetweenPerUnit(y, v, u, base) = NaN
         \/ /\ BetweenPerUnit(x, u, v, base) \in Finite
            /\ BetweenPerUnit(BetweenPerUnit(x, u, v, base), v, u, base) = x
<1>1. u.multiplier \in NonZero /\ v.multiplier \in NonZero
  BY UndoableFacts
<1>2. \A y \in Finite : /\ y ** base \in Finite /\ y // base \in Finite
                        /\ Scaled(Scaled(y ** base, u, v), v, u) // base = y
                        /\ Scaled((Scaled(y, u, v) // base) ** base, v, u) = y
  <2>1. \A y \in Finite : Scaled(y, u, v) \in Finite /\ Scaled(Scaled(y, u, v), v, u) = y
    BY <1>1, Scaling
  <2>2. \A y \in Finite : /\ y ** base \in Finite /\ y // base \in Finite
                          /\ (y ** base) // base = y /\ (y // base) ** base = y
    BY QuotientLaws
  <2> QED  BY <2>1, <2>2
<1>3. \A y \in Finite : Scaled(y, u, v) \in Finite /\ y // base \in Finite
  <2>1. \A y \in Finite : Scaled(y, u, v) \in Finite
    BY <1>1, Scaling
  <2> QED  BY <1>2, <2>1
<1> DEFINE possible == has_same_base(u.base, v.base) \/ pu \in {u, v}
<1>4. (has_same_base(v.base, u.base) \/ pu \in {v, u}) <=> possible
  BY DEF has_same_base
<1>5. CASE ~possible
  BY <1>4, <1>5 DEF BetweenPerUnit
<1>6. CASE possible /\ per_unit(u)
  <2>1. \A y : /\ BetweenPerUnit(y, u, v, base) = Scaled(y ** base, u, v)
               /\ BetweenPerUnit(y, v, u, base) = Scaled(y, v, u) // base
    BY <1>4, <1>6 DEF BetweenPerUnit, per_unit
  <2> QED  BY <1>2, <1>3, <2>1
<1>7. CASE possible /\ ~per_unit(u)
  <2>1. \A y : /\ BetweenPerUnit(y, u, v, base) = Scaled(y, u, v) // base
               /\ BetweenPerUnit(y, v, u, base) = Scaled(y ** base, v, u)
    BY <1>4, <1>7 DEF BetweenPerUnit, per_unit
  <2> QED  BY <1>2, <1>3, <2>1
<1> QED  BY <1>5, <1>6, <1>7

\* Related quantities are of no other rule: the powers of the ampere tell.
LEMMA RelatedOnly ==
  ASSUME NEW u \in Undoable, NEW v \in Undoable, Related(u, v)
  PROVE  /\ Related(v, u)
         /\ ~has_same_base(u.base, v.base) /\ ~equivalent_non_counting(u.base, v.base)
         /\ ~Inverts(u, v) /\ ~WeightToMass(u, v) /\ ~WeightToMass(v, u)
         /\ \A y : extraValidConversions(y, u, v) = NaN
<1> DEFINE m == u.base.exp["ampere"]
           n == v.base.exp["ampere"]
<1>1. "ampere" \in Base /\ "ampere" \notin Counting
  BY NamedBases DEF Counting
<1>2. m \in {0, 1, -2} /\ n \in {0, 1, -2} /\ m # n
  <2>1. PICK p \in {A, W, ohm}, q \in {A, W, ohm} :
          p # q /\ u.base.exp = p.exp /\ v.base.exp = q.exp
    BY DEF Related, has_same_base
  <2>2. /\ W.exp["ampere"] = 0 /\ A.exp["ampere"] = 1 /\ ohm.exp["ampere"] = -2
    BY NamedBases
  <2>3. p.exp["ampere"] # q.exp["ampere"]
    BY <2>1, <2>2
  <2> QED  BY <2>1, <2>2, <2>3
<1>3. Related(v, u)
  BY DEF Related
<1>4. ~has_same_base(u.base, v.base)
  BY <1>2 DEF has_same_base
<1>5. ~equivalent_non_counting(u.base, v.base)
  BY <1>1, <1>2 DEF equivalent_non_counting
<1>6. \A k \in {0, 1, 2, 3, -1, -2, -3} : k # 0 => Wrap("ampere", k) # 0
  <2>1. Half["ampere"] \in {2, 4, 8, 32, 128}
    BY <1>1, HalfAssumption
  <2> QED  BY <2>1 DEF Wrap
<1>7. /\ Divides(u.base, v.base).exp["ampere"] = Wrap("ampere", m - n)
      /\ Divides(v.base, u.base).exp["ampere"] = Wrap("ampere", n - m)
      /\ Inv(v.base).exp["ampere"] = Wrap("ampere", -n)
  BY <1>1 DEF Divides, Inv, unit_data
<1> HIDE DEF m, n
<1>8. Acceleration.exp["ampere"] = 0
  BY NamedBases
<1>9. ~WeightToMass(u, v) /\ ~WeightToMass(v, u)
  <2>1. m - n \in {0, 1, 2, 3, -1, -2, -3} /\ m - n # 0
    BY <1>2
  <2>2. n - m \in {0, 1, 2, 3, -1, -2, -3} /\ n - m # 0
    BY <1>2
  <2>3. Wrap("ampere", m - n) # 0 /\ Wrap("ampere", n - m) # 0
    BY <1>6, <2>1, <2>2
  <2> QED  BY <1>7, <1>8, <2>3 DEF WeightToMass, has_same_base
<1>10. ~Inverts(u, v)
  <2>1. Half["ampere"] \in {2, 4, 8, 32, 128}
    BY <1>1, HalfAssumption
  <2>2. m # Wrap("ampere", -n)
    BY <1>2, <2>1 DEF Wrap
  <2> QED  BY <1>7, <2>2 DEF Inverts, has_same_base, m
<1>11. \A y : extraValidConversions(y, u, v) = NaN
  <2>1. CubicMeter.exp["ampere"] = 0 /\ J.exp["ampere"] = 0
    BY NamedBases
  <2>2. m # 0 \/ n # 0
    BY <1>2
  <2> QED  BY <2>1, <2>2 DEF extraValidConversions, has_same_base, m, n
<1> QED  BY <1>3, <1>4, <1>5, <1>9, <1>10, <1>11

\* The bases assumed for three per-unit units are the same both ways.
LEMMA AssumedBases ==
  ASSUME NEW u, NEW v
  PROVE  /\ assumedBase(v, u) = assumedBase(u, v)
         /\ IsNumber(assumedBase(u, v)) => assumedBase(u, v) \in NonZero
<1>1. {puHz, puMW, mach} \subseteq {puHz, puMW, mach} /\ \A w : w \in {u, v} <=> w \in {v, u}
  OBVIOUS
<1>2. 60 \in NonZero
  BY SmallLiteral
<1>3. 100 \in NonZero
  BY SmallLiteral
<1>4. Rational(34125, 100) \in NonZero
  BY LiteralFacts
<1> QED  BY <1>1, <1>2, <1>3, <1>4 DEF assumedBase, IsNumber

\* A kilo taken for a kilogram or a kilometer is not given back.
TakenForKilo(u, v) ==
  u = kilo /\ (has_same_base(v.base, kg.base) \/ has_same_base(v.base, km.base))

\* From a unit of the dimension of kg or km nothing leads to kilo.
LEMMA KiloIsLast ==
  ASSUME NEW v \in Undoable, NEW y, NEW c, NEW d,
         TakenForKilo(kilo, v), ~per_unit(v), ~equation(v)
  PROVE  /\ ConvertVia(y, v, kilo, c, d) = NaN
         /\ v # kilo
<1> DEFINE k == v.base.exp["kilogram"]
           m == v.base.exp["meter"]
<1>1. {"meter", "second", "kilogram"} \subseteq Base \ Counting
  BY NamedBases DEF Counting
<1>2. \/ k = 1
      \/ k = 0 /\ m = 1 /\ v.base.exp["second"] = 0
  <2>1. kg.base.exp["kilogram"] = 1
        /\ km.base.exp["kilogram"] = 0 /\ km.base.exp["meter"] = 1 /\ km.base.exp["second"] = 0
    BY NamedBases
  <2> QED  BY <2>1 DEF TakenForKilo, has_same_base
<1>3. \A b \in Base : kilo.base.exp[b] = 0 /\ defunit.base.exp[b] = 0
  BY NoExponents
<1>4. v # kilo /\ ~is_default(v) /\ v.base # kilo.base
  BY <1>1, <1>2, <1>3 DEF is_default
<1>5. kilo.base.flags = {} /\ "per_unit" \in defunit.base.flags
  <2>1. kilo.base.flags = {} /\ defunit.base.flags = {"per_unit", "i_flag"}
    BY PlainNumbers
  <2> QED  BY <2>1
<1>6. ~is_default(kilo) /\ ~per_unit(kilo) /\ ~equation(kilo)
  BY <1>5 DEF is_default, per_unit, equation
<1>7. ~has_same_base(v.base, kilo.base) /\ ~equivalent_non_counting(v.base, kilo.base)
  BY <1>1, <1>2, <1>3 DEF has_same_base, equivalent_non_counting
<1>8. \A b \in Base : Wrap(b, -0) = 0
  <2> TAKE b \in Base
  <2>1. Half[b] \in {2, 4, 8, 32, 128}
    BY HalfAssumption
  <2> QED  BY <2>1 DEF Wrap
<1>9. ~Inverts(v, kilo)
  <2>1. \A b \in Base : Inv(kilo.base).exp[b] = 0
    BY <1>3, <1>8 DEF Inv, unit_data
  <2> QED  BY <1>1, <1>2, <2>1 DEF Inverts, has_same_base
<1>10. ~WeightToMass(v, kilo) /\ ~WeightToMass(kilo, v)
  <2>1. CASE k = 1
    BY <1>1, <1>3, <2>1 DEF WeightToMass
  <2>2. CASE v.base.exp["second"] = 0
    <3>1. Divides(v.base, kilo.base).exp["second"] = Wrap("second", 0 - 0)
          /\ Divides(kilo.base, v.base).exp["second"] = Wrap("second", 0 - 0)
      BY <1>1, <1>3, <2>2 DEF Divides, unit_data
    <3>2. Wrap("second", 0 - 0) = 0
      BY <1>1, <1>8
    <3>3. Acceleration.exp["second"] = -2
      BY NamedBases
    <3> QED  BY <3>1, <3>2, <3>3 DEF WeightToMass, has_same_base
  <2> QED  BY <1>2, <2>1, <2>2
<1>11. otherUsefulConversions(y, v, kilo, c, d) = NaN
  BY <1>4, <1>10 DEF otherUsefulConversions
<1>e. extraValidConversions(y, v, kilo) = NaN
  <2>1. J.exp["kilogram"] = 1 /\ CubicMeter.exp["meter"] = 3
    BY NamedBases
  <2> QED  BY <1>1, <1>3, <2>1 DEF extraValidConversions, has_same_base
<1>12. ConvertDistinct(y, v, kilo, c, d) = NaN
  BY <1>6, <1>7, <1>9, <1>11, <1>e DEF ConvertDistinct, IsNumber, per_unit
<1>13. ConvertVia(y, v, kilo, c, d) = NaN
  BY <1>4, <1>6, <1>7, <1>12 DEF ConvertVia
<1> QED  BY <1>4, <1>13

\* Units that differ in more than their multipliers.
LEMMA DistinctUndone ==
  ASSUME NEW u \in Undoable, NEW v \in Undoable, NEW x \in Finite,
         NEW a, NEW b, NEW c, NEW d,
         ConvertDistinct(x, u, v, a, b) \in Finite
  PROVE  \/ ConvertDistinct(ConvertDistinct(x, u, v, a, b), v, u, c, d) = x
         \/ TakenForKilo(u, v) /\ ~per_unit(v)
<1> DEFINE y == ConvertDistinct(x, u, v, a, b)
           z(w) == ConvertDistinct(w, v, u, c, d)
           both == per_unit(u) /\ per_unit(v)
           same == has_same_base(u.base, v.base)
           alike == equivalent_non_counting(u.base, v.base)
           flagged == e_flag(u) \/ e_flag(v)
           assumed == assumedBase(u, v)
           known == knownConversions(x, u.base, v.base)
<1>1. /\ (per_unit(v) /\ per_unit(u)) <=> both
      /\ has_same_base(v.base, u.base) <=> same
      /\ equivalent_non_counting(v.base, u.base) <=> alike
      /\ (e_flag(v) \/ e_flag(u)) <=> flagged
      /\ assumedBase(v, u) = assumed
      /\ Inverts(v, u) <=> Inverts(u, v)
      /\ pu \in {u, v} <=> pu \in {v, u}
  BY AssumedBases, InvertsBothWays DEF has_same_base, equivalent_non_counting
<1>2. NaN \notin Finite /\ \A r \in Finite : IsNumber(r)
  BY Digits DEF IsNumber
<1>3. u.multiplier \in NonZero /\ v.multiplier \in NonZero
  BY UndoableFacts
<1>4. CASE both /\ pu \in {u, v}
  <2>1. \A w : ConvertDistinct(w, u, v, a, b) = w /\ ConvertDistinct(w, v, u, c, d) = w
    BY <1>1, <1>4 DEF ConvertDistinct
  <2> QED  BY <2>1
<1>5. CASE both /\ ~(pu \in {u, v}) /\ IsNumber(known)
  <2>1. knownConversions(known, v.base, u.base) = x
    BY <1>5, KnownUndone
  <2>2. y = known
    BY <1>5 DEF ConvertDistinct
  <2>3. ConvertDistinct(known, v, u, c, d) = x
    BY <1>1, <1>2, <1>5, <2>1 DEF ConvertDistinct
  <2> QED  BY <2>2, <2>3
<1>6. CASE both /\ ~(pu \in {u, v}) /\ ~IsNumber(known) /\ Related(u, v)
  <2>1. /\ ~same /\ ~alike /\ ~Inverts(u, v) /\ ~WeightToMass(u, v) /\ ~WeightToMass(v, u)
        /\ extraValidConversions(x, u, v) = NaN
    BY <1>6, RelatedOnly
  <2>2. ~per_unit(kilo)
    BY PlainNumbers DEF per_unit
  <2>3. u # kilo
    BY <1>6, <2>2
  <2>4. otherUsefulConversions(x, u, v, a, b) = NaN
    BY <2>1, <2>3 DEF otherUsefulConversions
  <2>5. y = NaN
    BY <1>6, <2>1, <2>4 DEF ConvertDistinct, IsNumber
  <2> QED  BY <1>2, <2>5
<1> DEFINE Plainly == ~(both /\ (pu \in {u, v} \/ IsNumber(known) \/ Related(u, v)))
<1>7. ASSUME Plainly, NEW w \in Finite
      PROVE  /\ ~(both /\ pu \in {u, v})
             /\ ~(both /\ IsNumber(known))
             /\ ~(both /\ IsNumber(knownConversions(w, v.base, u.base)))
  <2>1. IsNumber(knownConversions(w, v.base, u.base)) => Related(v, u)
    BY KnownUndone
  <2>2. Related(v, u) => Related(u, v)
    BY DEF Related
  <2> QED  BY <1>7, <2>1, <2>2
<1>8. CASE Plainly /\ per_unit(u) # per_unit(v)
  <2>1. CASE IsNumber(assumed)
    <3>1. assumed \in NonZero
      BY <2>1, AssumedBases
    <3> HIDE DEF assumed
    <3>2. \A w : /\ ConvertDistinct(w, u, v, a, b) = BetweenPerUnit(w, u, v, assumed)
                 /\ ConvertDistinct(w, v, u, c, d) = BetweenPerUnit(w, v, u, assumed)
      BY <1>1, <1>8, <2>1 DEF ConvertDistinct, assumed, per_unit
    <3>3. \/ BetweenPerUnit(x, u, v, assumed) = NaN
          \/ BetweenPerUnit(BetweenPerUnit(x, u, v, assumed), v, u, assumed) = x
      BY <1>8, <3>1, PerUnitUndone
    <3> QED  BY <1>2, <3>2, <3>3
  <2>2. CASE ~IsNumber(assumed)
    BY <1>2, <1>8, <2>2 DEF ConvertDistinct
  <2> QED  BY <2>1, <2>2
<1> DEFINE Last == Plainly /\ per_unit(u) = per_unit(v)
<1>9. CASE Last /\ same
  <2>1. y = Scaled(x, u, v)
    BY <1>7, <1>9 DEF ConvertDistinct
  <2>2. y \in Finite /\ Scaled(y, v, u) = x
    BY <1>3, <2>1, Scaling
  <2> HIDE DEF y
  <2>3. ConvertDistinct(y, v, u, c, d) = Scaled(y, v, u)
    BY <1>1, <1>7, <1>9, <2>2 DEF ConvertDistinct
  <2> QED  BY <2>2, <2>3 DEF y
<1> DEFINE counts == convertCountingUnits(x, u, v)
<1>10. CASE Last /\ ~same /\ alike /\ IsNumber(counts)
  <2>1. y = counts
    BY <1>7, <1>10 DEF ConvertDistinct
  <2>2. counts \in Finite /\ convertCountingUnits(counts, v, u) = x
    BY <1>10, CountingUndone DEF IsNumber
  <2> HIDE DEF counts
  <2>3. ConvertDistinct(counts, v, u, c, d) = x
    BY <1>1, <1>2, <1>7, <1>10, <2>2 DEF ConvertDistinct
  <2> QED  BY <2>1, <2>3
<1> DEFINE Uncounted == ~(alike /\ IsNumber(counts))
<1>11. ASSUME Uncounted, NEW w \in Finite
       PROVE  ~(alike /\ IsNumber(convertCountingUnits(w, v, u)))
  BY <1>2, <1>11, CountingUndone DEF IsNumber
<1>12. CASE Last /\ ~same /\ Uncounted /\ Inverts(u, v)
  <2> DEFINE m == u.multiplier
             n == v.multiplier
  <2>1. y = 1 // ((x ** m) ** n)
    BY <1>7, <1>12 DEF ConvertDistinct
  <2>2. y \in Finite
    OBVIOUS
  <2>3. 1 // ((y ** n) ** m) = x
    BY <1>3, <2>1, <2>2, InversionUndone
  <2> HIDE DEF y
  <2>4. ConvertDistinct(y, v, u, c, d) = 1 // ((y ** n) ** m)
    BY <1>1, <1>7, <1>11, <1>12, <2>2 DEF ConvertDistinct
  <2> QED  BY <2>3, <2>4 DEF y
<1> DEFINE gas == extraValidConversions(x, u, v)
           After == Last /\ ~same /\ Uncounted /\ ~Inverts(u, v)
<1>13. CASE After /\ flagged /\ IsNumber(gas)
  <2>1. y = gas
    BY <1>7, <1>13 DEF ConvertDistinct
  <2>2. gas \in Finite /\ extraValidConversions(gas, v, u) = x
    BY <1>13, GasUndone DEF IsNumber
  <2> HIDE DEF gas
  <2>3. ConvertDistinct(gas, v, u, c, d) = x
    BY <1>1, <1>2, <1>7, <1>11, <1>13, <2>2 DEF ConvertDistinct
  <2> QED  BY <2>1, <2>3
<1>14. ASSUME ~(flagged /\ IsNumber(gas)), NEW w \in Finite
       PROVE  ~(flagged /\ IsNumber(extraValidConversions(w, v, u)))
  BY <1>2, <1>14, GasUndone DEF IsNumber
<1>15. CASE After /\ ~(flagged /\ IsNumber(gas))
  <2>1. y = otherUsefulConversions(x, u, v, a, b)
    BY <1>7, <1>15 DEF ConvertDistinct
  <2>2. CASE WeightToMass(u, v) \/ WeightToMass(v, u)
    <3> DEFINE w == otherUsefulConversions(x, u, v, a, b)
    <3>1. w \in Finite /\ otherUsefulConversions(w, v, u, c, d) = x
      BY <2>2, WeightUndone
    <3> HIDE DEF w
    <3>2. ConvertDistinct(w, v, u, c, d) = otherUsefulConversions(w, v, u, c, d)
      BY <1>1, <1>7, <1>11, <1>14, <1>15, <3>1 DEF ConvertDistinct
    <3> QED  BY <2>1, <3>1, <3>2 DEF w
  <2>3. CASE ~WeightToMass(u, v) /\ ~WeightToMass(v, u)
    <3>1. TakenForKilo(u, v)
      BY <1>2, <2>1, <2>3 DEF otherUsefulConversions, TakenForKilo
    <3>2. ~per_unit(v)
      BY <1>15, <3>1, PlainNumbers DEF TakenForKilo, per_unit
    <3> QED  BY <3>1, <3>2
  <2> QED  BY <2>2, <2>3
<1> QED
  BY <1>4, <1>5, <1>6, <1>8, <1>9, <1>10, <1>12, <1>13, <1>15

(***************************************************************************)
(* convert without a base.                                                 *)
(***************************************************************************)
Trivial(u, v) == u = v \/ is_default(u) \/ is_default(v)

FlagRule(u, v) == /\ e_flag(u) \/ e_flag(v)
                  /\ has_same_base(u.base, v.base)
                  /\ FlagsConvert(u, v)

\* The rules that a conversion of a number tries, each with its condition.
LEMMA ViaCases ==
  ASSUME NEW u \in Undoable, NEW v \in Undoable, NEW x \in Finite, NEW a, NEW b
  PROVE  ConvertVia(x, u, v, a, b) =
           IF Trivial(u, v) THEN x
           ELSE IF FlagRule(u, v) THEN convertFlaggedUnits(x, u, v, NaN)
           ELSE IF equation(u) \/ equation(v)
           THEN IF equivalent_non_counting(u.base, v.base)
                THEN convert_value_to_equnit(
                       Scaled(convert_equnit_to_value(x, u.base), u, v), v.base)
                ELSE NaN
           ELSE IF u.base = v.base THEN Scaled(x, u, v)
           ELSE ConvertDistinct(x, u, v, a, b)
<1>1. NaN \in Number
  BY NumberCases
<1>2. has_same_base(u.base, v.base) =>
        (IsNumber(convertFlaggedUnits(x, u, v, NaN)) <=> FlagsConvert(u, v))
  BY <1>1, FlaggedUndone
<1> QED  BY <1>2 DEF ConvertVia, Trivial, FlagRule

\* The conditions of the rules are the same in both directions.
LEMMA RulesBothWays ==
  ASSUME NEW u \in Undoable, NEW v \in Undoable
  PROVE  /\ Trivial(v, u) <=> Trivial(u, v)
         /\ FlagRule(v, u) <=> FlagRule(u, v)
         /\ equivalent_non_counting(v.base, u.base) <=> equivalent_non_counting(u.base, v.base)
         /\ has_same_base(v.base, u.base) <=> has_same_base(u.base, v.base)
<1>1. has_same_base(v.base, u.base) <=> has_same_base(u.base, v.base)
  BY DEF has_same_base
<1>2. has_same_base(u.base, v.base) => (FlagsConvert(v, u) <=> FlagsConvert(u, v))
  BY DEF FlagsConvert, has_same_base
<1>3. FlagRule(v, u) <=> FlagRule(u, v)
  BY <1>1, <1>2 DEF FlagRule
<1> QED  BY <1>1, <1>3 DEF Trivial, equivalent_non_counting

\* A level in an equation unit, by way of the number it stands for.
LEMMA LevelUndone ==
  ASSUME NEW u \in Undoable, NEW v \in Undoable, NEW x \in Finite
  PROVE  LET there(w) == convert_value_to_equnit(
                           Scaled(convert_equnit_to_value(w, u.base), u, v), v.base)
             back(w) == convert_value_to_equnit(
                          Scaled(convert_equnit_to_value(w, v.base), v, u), u.base)
         IN there(x) \in Finite =>
              \/ back(there(x)) = x
              \/ back(there(x)) = NaN /\ equation(u) /\ eq_type(u.base) < 16
<1> DEFINE p == convert_equnit_to_value(x, u.base)
           q == Scaled(p, u, v)
           y == convert_value_to_equnit(q, v.base)
<1> SUFFICES ASSUME y \in Finite
             PROVE  LET z == convert_value_to_equnit(
                               Scaled(convert_equnit_to_value(y, v.base), v, u), u.base)
                    IN z = x \/ (z = NaN /\ equation(u) /\ eq_type(u.base) < 16)
  OBVIOUS
<1>1. u.multiplier \in NonZero /\ v.multiplier \in NonZero
  BY UndoableFacts
<1>2. p \in Number
  <2>1. x \in Number
    BY NumberCases
  <2> QED  BY <2>1, EquationTyped
<1>3. p \in Finite
  <2> SUFFICES ASSUME p = NaN PROVE FALSE
    BY <1>2 DEF Number
  <2>1. q = NaN
    BY NaNAbsorbs DEF Scaled
  <2>2. y = NaN
    BY <2>1, EquationOfNaN
  <2> QED  BY <2>2, Digits
<1>4. q \in Finite /\ Scaled(q, v, u) = p
  BY <1>1, <1>3, Scaling
<1>5. convert_equnit_to_value(y, v.base) = q
  <2>1. ~("equation" \in v.base.flags /\ eq_type(v.base) \in {22, 23})
    BY UndoableFacts DEF equation
  <2> HIDE DEF q
  <2>2. EquationUndone(v.base, q)
    BY <1>4, <2>1, EquationLaws
  <2> QED  BY <2>2 DEF EquationUndone
<1>6. EquationUndone(u.base, x) /\ ("equation" \notin u.base.flags => convert_value_to_equnit(p, u.base) = x)
  <2>1. ~("equation" \in u.base.flags /\ eq_type(u.base) \in {22, 23})
    BY UndoableFacts DEF equation
  <2>2. EquationUndone(u.base, x)
    BY <2>1, EquationLaws
  <2>3. "equation" \notin u.base.flags => p = x /\ convert_value_to_equnit(x, u.base) = x
    BY <2>1, EquationLaws
  <2> QED  BY <2>2, <2>3
<1>7. eq_type(u.base) \in Int
  BY EquationTypeRange
<1>8. convert_value_to_equnit(p, u.base) \in {x, NaN}
      /\ (eq_type(u.base) >= 16 => convert_value_to_equnit(p, u.base) = x)
  BY <1>3, <1>6 DEF EquationUndone
<1> QED  BY <1>4, <1>5, <1>6, <1>7, <1>8 DEF equation

\* What convert does between two units, convert undoes.
LEMMA ViaUndone ==
  ASSUME NEW u \in Undoable, NEW v \in Undoable, NEW x \in Finite,
         NEW a, NEW b, NEW c, NEW d,
         ConvertVia(x, u, v, a, b) \in Finite
  PROVE  LET z == ConvertVia(ConvertVia(x, u, v, a, b), v, u, c, d)
         IN \/ z = x
            \/ z = NaN /\ equation(u) /\ eq_type(u.base) < 16
            \/ z = NaN /\ TakenForKilo(u, v)
<1> DEFINE y == ConvertVia(x, u, v, a, b)
<1>1. \A w \in Finite : ConvertVia(w, u, v, a, b) =
           IF Trivial(u, v) THEN w
           ELSE IF FlagRule(u, v) THEN convertFlaggedUnits(w, u, v, NaN)
           ELSE IF equation(u) \/ equation(v)
           THEN IF equivalent_non_counting(u.base, v.base)
                THEN convert_value_to_equnit(
                       Scaled(convert_equnit_to_value(w, u.base), u, v), v.base)
                ELSE NaN
           ELSE IF u.base = v.base THEN Scaled(w, u, v)
           ELSE ConvertDistinct(w, u, v, a, b)
  BY ViaCases
<1>2. \A w \in Finite : ConvertVia(w, v, u, c, d) =
           IF Trivial(u, v) THEN w
           ELSE IF FlagRule(u, v) THEN convertFlaggedUnits(w, v, u, NaN)
           ELSE IF equation(u) \/ equation(v)
           THEN IF equivalent_non_counting(u.base, v.base)
                THEN convert_value_to_equnit(
                       Scaled(convert_equnit_to_value(w, v.base), v, u), u.base)
                ELSE NaN
           ELSE IF u.base = v.base THEN Scaled(w, v, u)
           ELSE ConvertDistinct(w, v, u, c, d)
  <2> TAKE w \in Finite
  <2>1. ConvertVia(w, v, u, c, d) =
           IF Trivial(v, u) THEN w
           ELSE IF FlagRule(v, u) THEN convertFlaggedUnits(w, v, u, NaN)
           ELSE IF equation(v) \/ equation(u)
           THEN IF equivalent_non_counting(v.base, u.base)
                THEN convert_value_to_equnit(
                       Scaled(convert_equnit_to_value(w, v.base), v, u), u.base)
                ELSE NaN
           ELSE IF v.base = u.base THEN Scaled(w, v, u)
           ELSE ConvertDistinct(w, v, u, c, d)
    BY ViaCases
  <2> QED  BY <2>1, RulesBothWays
<1>3. NaN \notin Finite /\ NaN \in Number
  BY Digits, NumberCases
<1>4. CASE Trivial(u, v)
  BY <1>1, <1>2, <1>4
<1>5. CASE ~Trivial(u, v) /\ FlagRule(u, v)
  <2>1. y = convertFlaggedUnits(x, u, v, NaN)
    BY <1>1, <1>5
  <2>2. convertFlaggedUnits(y, v, u, NaN) = x
    BY <1>3, <1>5, <2>1, FlaggedUndone DEF FlagRule
  <2> HIDE DEF y
  <2>3. y \in Finite
    BY DEF y
  <2>4. ConvertVia(y, v, u, c, d) = x
    BY <1>2, <1>5, <2>2, <2>3
  <2> QED  BY <2>4 DEF y
<1> DEFINE Level == equation(u) \/ equation(v)
<1>6. CASE ~Trivial(u, v) /\ ~FlagRule(u, v) /\ Level
  <2>1. equivalent_non_counting(u.base, v.base)
    BY <1>1, <1>3, <1>6
  <2>2. y = convert_value_to_equnit(
              Scaled(convert_equnit_to_value(x, u.base), u, v), v.base)
    BY <1>1, <1>6, <2>1
  <2> DEFINE z == convert_value_to_equnit(
                    Scaled(convert_equnit_to_value(y, v.base), v, u), u.base)
  <2>3. z = x \/ (z = NaN /\ equation(u) /\ eq_type(u.base) < 16)
    BY <2>2, LevelUndone
  <2>4. ConvertVia(y, v, u, c, d) = z
    BY <1>2, <1>6, <2>1
  <2> QED  BY <2>3, <2>4
<1>7. CASE ~Trivial(u, v) /\ ~FlagRule(u, v) /\ ~Level /\ u.base = v.base
  <2>1. u.multiplier \in NonZero /\ v.multiplier \in NonZero
    BY UndoableFacts
  <2>2. y = Scaled(x, u, v)
    BY <1>1, <1>7
  <2>3. Scaled(y, v, u) = x
    BY <2>1, <2>2, Scaling
  <2>4. ConvertVia(y, v, u, c, d) = Scaled(y, v, u)
    BY <1>2, <1>7
  <2> QED  BY <2>3, <2>4
<1>8. CASE ~Trivial(u, v) /\ ~FlagRule(u, v) /\ ~Level /\ u.base # v.base
  <2>1. y = ConvertDistinct(x, u, v, a, b)
    BY <1>1, <1>8
  <2>2. ConvertVia(y, v, u, c, d) = ConvertDistinct(y, v, u, c, d)
    BY <1>2, <1>8
  <2>3. \/ ConvertDistinct(y, v, u, c, d) = x
        \/ TakenForKilo(u, v) /\ ~per_unit(v)
    BY <2>1, DistinctUndone
  <2>4. ASSUME TakenForKilo(u, v), ~per_unit(v)
        PROVE  ConvertVia(y, v, u, c, d) = NaN
    <3>1. u = kilo /\ TakenForKilo(kilo, v)
      BY <2>4 DEF TakenForKilo
    <3>2. ConvertVia(y, v, kilo, c, d) = NaN
      BY <1>8, <2>4, <3>1, KiloIsLast
    <3> QED  BY <3>1, <3>2
  <2> QED  BY <2>2, <2>3, <2>4
<1> QED  BY <1>4, <1>5, <1>6, <1>7, <1>8

(***************************************************************************)
(* Conversions of numbers give numbers, or NaN.                            *)
(***************************************************************************)
UnitType == [multiplier : Finite, base : UnitDataType]

\* The parts of a unit.
LEMMA UnitTyped ==
  ASSUME NEW u \in UnitType
  PROVE  u.multiplier \in Number /\ u.base \in UnitDataType
BY DEF UnitType, Number

\* The operations on any numbers.
LEMMA NumberFormulas ==
  \A x, y \in Number : /\ x ++ y \in Number /\ x -- y \in Number
                       /\ x ** y \in Number /\ x // y \in Number
BY NumberClosure

\* Scaling gives numbers.
LEMMA ScaledTyped ==
  ASSUME NEW u \in UnitType, NEW v \in UnitType, NEW x \in Number
  PROVE  Scaled(x, u, v) \in Number
<1>1. u.multiplier \in Number /\ v.multiplier \in Number
  BY UnitTyped
<1> QED  BY <1>1, NumberFormulas DEF Scaled

\* The named quantities are numbers.
LEMMA LiteralsTyped ==
  /\ scm \in Number /\ standard_gravity \in Number /\ atm \in Number /\ KelvinOffset \in Number
  /\ Avogadro \in NonZero /\ (2 * Pi) % Prime \in NonZero
  /\ Rational(34125, 100) \in NonZero
  /\ \A m : Bias(m) \in Number
<1>1. scm \in Finite /\ standard_gravity \in Finite
  BY LiteralFacts DEF NonZero
<1> QED  BY <1>1, LiteralFacts, BiasTyped DEF Number

\* So are the small integers in the conversions.
LEMMA DigitsTyped ==
  /\ 0 \in Number /\ 1 \in Number /\ 5 \in Number /\ 9 \in Number /\ 32 \in Number /\ NaN \in Number
  /\ 60 \in NonZero /\ 100 \in NonZero
<1>1. 0 \in Finite /\ 1 \in Finite
  BY Digits
<1>2. 5 \in Finite
  BY SmallLiteral
<1>3. 9 \in Finite
  BY SmallLiteral
<1>4. 32 \in Finite
  BY SmallLiteral
<1>5. 60 \in NonZero
  BY SmallLiteral
<1>6. 100 \in NonZero
  BY SmallLiteral
<1> QED  BY <1>1, <1>2, <1>3, <1>4, <1>5, <1>6 DEF Number

\* The rule of the flagged units gives numbers.
LEMMA FlaggedTyped ==
  ASSUME NEW u \in UnitType, NEW v \in UnitType, NEW x \in Number, NEW basis \in Number
  PROVE  convertFlaggedUnits(x, u, v, basis) \in Number
<1>1. u.multiplier \in Number /\ v.multiplier \in Number
  BY UnitTyped
<1>2. ToCelsius(x, u) \in Number /\ \A y \in Number : FromCelsius(y, v) \in Number
  BY <1>1, NumberFormulas, DigitsTyped, LiteralsTyped DEF ToCelsius, FromCelsius
<1>3. convertTemperature(x, u, v) \in Number
  <2> DEFINE k == IF is_temperature(u) THEN ToCelsius(x, u) ++ KelvinOffset
                  ELSE x ** u.multiplier
  <2>1. k \in Number /\ k -- KelvinOffset \in Number
    BY <1>1, <1>2, NumberFormulas, LiteralsTyped
  <2>2. convertTemperature(x, u, v) =
          IF is_temperature(v) THEN FromCelsius(k -- KelvinOffset, v) ELSE k // v.multiplier
    BY DEF convertTemperature
  <2> HIDE DEF k
  <2> QED  BY <1>1, <1>2, <2>1, <2>2, NumberFormulas
<1>4. \A y \in Number : Scaled(y, u, v) \in Number
  BY ScaledTyped
<1>5. x ** u.multiplier \in Number
  BY <1>1, NumberFormulas
<1>6. /\ ((x ** u.multiplier) ++ atm) // v.multiplier \in Number
      /\ ((x ** u.multiplier) -- atm) // v.multiplier \in Number
  BY <1>1, <1>5, NumberFormulas, LiteralsTyped
<1>7. Scaled(x ++ basis, u, v) \in Number /\ Scaled(x, u, v) -- basis \in Number
      /\ Scaled(x, u, v) \in Number
  BY <1>4, NumberFormulas
<1> QED  BY <1>3, <1>6, <1>7, DigitsTyped DEF convertFlaggedUnits

\* So does that of the counting units.
LEMMA CountingTyped ==
  ASSUME NEW u \in UnitType, NEW v \in UnitType, NEW x \in Number
  PROVE  convertCountingUnits(x, u, v) \in Number
<1> DEFINE m == v.base.exp["mole"] - u.base.exp["mole"]
           r == v.base.exp["radian"] - u.base.exp["radian"]
           p == (2 * Pi) % Prime
<1>1. p \in NonZero /\ Avogadro \in NonZero
  BY LiteralsTyped
<1>2. \A y \in Number : Scaled(y, u, v) \in Number
  BY ScaledTyped
<1> HIDE DEF p
<1>3. ASSUME NEW k \in -2..2, NEW q \in NonZero
      PROVE  Scaled(x ** IntegerPower(q, k), u, v) \in Number
  <2>1. IntegerPower(q, k) \in NonZero
    BY <1>3, PowersInvert
  <2>2. IntegerPower(q, k) \in Number
    BY <2>1 DEF NonZero, Number
  <2> QED  BY <1>2, <2>2, NumberFormulas
<1>4. r \in -2..2 => Scaled(x ** IntegerPower(p, r), u, v) \in Number
  BY <1>1, <1>3
<1>5. m \in -1..1 => Scaled(x ** IntegerPower(Avogadro, -m), u, v) \in Number
  <2> SUFFICES ASSUME m \in -1..1 PROVE Scaled(x ** IntegerPower(Avogadro, -m), u, v) \in Number
    OBVIOUS
  <2>1. -m \in -2..2
    OBVIOUS
  <2> QED  BY <1>1, <1>3, <2>1
<1> QED  BY <1>2, <1>4, <1>5, DigitsTyped DEF convertCountingUnits, p

\* So does the one with a base value.
LEMMA PerUnitTyped ==
  ASSUME NEW u \in UnitType, NEW v \in UnitType, NEW x \in Number, NEW base \in Number
  PROVE  BetweenPerUnit(x, u, v, base) \in Number
<1>1. x ** base \in Number
  BY NumberFormulas
<1>2. Scaled(x, u, v) \in Number /\ Scaled(x ** base, u, v) \in Number
  BY <1>1, ScaledTyped
<1> QED  BY <1>2, NumberFormulas, DigitsTyped DEF BetweenPerUnit

\* So do the inverse, the known conversions and the last resorts.
LEMMA LastTyped ==
  ASSUME NEW u \in UnitType, NEW v \in UnitType, NEW x \in Number,
         NEW a \in Number, NEW b \in Number
  PROVE  /\ extraValidConversions(x, u, v) \in Number
         /\ otherUsefulConversions(x, u, v, a, b) \in Number
         /\ knownConversions(x, u.base, v.base) \in Number
         /\ assumedBase(u, v) \in Number
         /\ 1 // ((x ** u.multiplier) ** v.multiplier) \in Number
<1>1. u.multiplier \in Number /\ v.multiplier \in Number
  BY UnitTyped
<1>2. \A y \in Number : Scaled(y, u, v) \in Number
  BY ScaledTyped
<1>3. /\ x ** scm \in Number /\ x // scm \in Number
      /\ x ** standard_gravity \in Number /\ x // standard_gravity \in Number
  BY LiteralsTyped, NumberFormulas
<1>4. extraValidConversions(x, u, v) \in Number
  BY <1>2, <1>3, DigitsTyped DEF extraValidConversions
<1>5. otherUsefulConversions(x, u, v, a, b) \in Number
  BY <1>2, <1>3, DigitsTyped DEF otherUsefulConversions
<1>6. 1 // x \in Number
  BY DigitsTyped, NumberFormulas
<1>7. knownConversions(x, u.base, v.base) \in Number
  BY <1>6, DigitsTyped DEF knownConversions
<1>8. assumedBase(u, v) \in Number
  BY DigitsTyped, LiteralsTyped DEF assumedBase, NonZero, Number
<1>9. x ** u.multiplier \in Number
  BY <1>1, NumberFormulas
<1>10. (x ** u.multiplier) ** v.multiplier \in Number
  BY <1>1, <1>9, NumberFormulas
<1>11. 1 // ((x ** u.multiplier) ** v.multiplier) \in Number
  BY <1>10, DigitsTyped, NumberFormulas
<1> QED  BY <1>4, <1>5, <1>7, <1>8, <1>11

\* So does convert, given the kilogram's and the kilometer's way.
LEMMA ViaTyped ==
  ASSUME NEW u \in UnitType, NEW v \in UnitType, NEW x \in Number,
         NEW a \in Number, NEW b \in Number
  PROVE  ConvertVia(x, u, v, a, b) \in Number
<1>1. convertFlaggedUnits(x, u, v, NaN) \in Number
  BY DigitsTyped, FlaggedTyped
<1>2. convert_equnit_to_value(x, u.base) \in Number
  BY EquationTyped
<1>3. Scaled(convert_equnit_to_value(x, u.base), u, v) \in Number /\ Scaled(x, u, v) \in Number
  BY <1>2, ScaledTyped
<1>4. convert_value_to_equnit(Scaled(convert_equnit_to_value(x, u.base), u, v), v.base) \in Number
  BY <1>3, EquationTyped
<1>5. convertCountingUnits(x, u, v) \in Number
  BY CountingTyped
<1>6. /\ extraValidConversions(x, u, v) \in Number
      /\ otherUsefulConversions(x, u, v, a, b) \in Number
      /\ knownConversions(x, u.base, v.base) \in Number
      /\ assumedBase(u, v) \in Number
      /\ 1 // ((x ** u.multiplier) ** v.multiplier) \in Number
  BY LastTyped
<1>7. BetweenPerUnit(x, u, v, assumedBase(u, v)) \in Number
  BY <1>6, PerUnitTyped
<1>8. ConvertDistinct(x, u, v, a, b) \in Number
  BY <1>3, <1>5, <1>6, <1>7, DigitsTyped DEF ConvertDistinct
<1> QED  BY <1>1, <1>3, <1>4, <1>8, DigitsTyped DEF ConvertVia

\* The units that convert names are units.
LEMMA NamedUnits == kg \in UnitType /\ km \in UnitType /\ pu.base \in UnitDataType
<1>2. 1 \in Finite
  BY Digits
<1>3. 1000 \in Finite
  BY SmallLiteral
<1>4. dim([kilogram |-> 1], {}) \in UnitDataType /\ dim([meter |-> 1], {}) \in UnitDataType
  <2>1. dim([kilogram |-> 1], {}) \in UnitDataType
    BY DEF dim, UnitDataType
  <2>2. dim([meter |-> 1], {}) \in UnitDataType
    BY DEF dim, UnitDataType
  <2> QED  BY <2>1, <2>2
<1>5. pu.base \in UnitDataType
  BY DEF pu, unit, PerUnit, Dimensionless, UnitDataType, Flag
<1> QED  BY <1>2, <1>3, <1>4, <1>5 DEF kg, km, unit, UnitType

\* convert gives numbers.
LEMMA ConvertTyped ==
  ASSUME NEW u \in UnitType, NEW v \in UnitType, NEW x \in Number
  PROVE  convert(x, u, v) \in Number
<1> DEFINE From(w) == ConvertVia(x, w, v, NaN, NaN)
<1>1. From(kg) \in Number /\ From(km) \in Number
  BY NamedUnits, DigitsTyped, ViaTyped
<1>2. convert(x, u, v) = ConvertVia(x, u, v, From(kg), From(km))
  BY DEF convert
<1> HIDE DEF From
<1> QED  BY <1>1, <1>2, ViaTyped

\* convert with a base value gives numbers.
LEMMA WithBaseTyped ==
  ASSUME NEW u \in UnitType, NEW v \in UnitType, NEW x \in Number, NEW base \in Number
  PROVE  convert_with_base(x, u, v, base) \in Number
<1>1. convertFlaggedUnits(x, u, v, base) \in Number
  BY FlaggedTyped
<1>2. Scaled(x, u, v) \in Number
  BY ScaledTyped
<1>3. BetweenPerUnit(x, u, v, base) \in Number
  BY PerUnitTyped
<1>4. convert(x, u, v) \in Number
  BY ConvertTyped
<1> QED  BY <1>1, <1>2, <1>3, <1>4 DEF convert_with_base

\* The base of a quantity is a number or none.
LEMMA BaseOfQuantity ==
  ASSUME NEW u, NEW p \in NonZero, NEW q \in NonZero
  PROVE  generate_base(u, p, q) \in NonZero \cup {NaN}
<1>1. q ** q \in NonZero
  BY NonZeroClosure
<1>2. p // q \in NonZero /\ (q ** q) // p \in NonZero /\ p // (q ** q) \in NonZero
  BY <1>1, NonZeroClosure
<1> QED  BY <1>2 DEF generate_base

\* A unit times pu is a unit.
LEMMA TimesPuTyped ==
  ASSUME NEW u \in UnitType
  PROVE  unit(u.multiplier, Times(u.base, pu.base)) \in UnitType
<1>1. u.base \in UnitDataType /\ pu.base \in UnitDataType /\ u.multiplier \in Finite
  BY NamedUnits DEF UnitType
<1>2. [b \in Base |-> u.base.exp[b] + pu.base.exp[b]] \in [Base -> Int]
  BY <1>1 DEF UnitDataType
<1>3. XorOn({"i_flag"}, u.base.flags, pu.base.flags) \in SUBSET Flag
  BY <1>1 DEF UnitDataType, XorOn, Xor
<1>4. Times(u.base, pu.base) \in UnitDataType
  BY <1>2, <1>3, StoreTyped DEF Times
<1> QED  BY <1>1, <1>4 DEF unit, UnitType

\* convert with two base values gives numbers.
LEMMA WithBasesTyped ==
  ASSUME NEW u \in UnitType, NEW v \in UnitType, NEW x \in Number,
         NEW p \in NonZero, NEW q \in NonZero
  PROVE  convert_with_bases(x, u, v, p, q) \in Number
<1> DEFINE Of(w) == generate_base(w.base, p, q)
           TimesPu(w) == unit(w.multiplier, Times(w.base, pu.base))
<1>1. Of(u) \in Number /\ Of(v) \in Number
  <2>1. Of(u) \in NonZero \cup {NaN} /\ Of(v) \in NonZero \cup {NaN}
    BY BaseOfQuantity
  <2> QED  BY <2>1 DEF NonZero, Number
<1>2. u.multiplier \in Number /\ v.multiplier \in Number /\ p \in Number /\ q \in Number
  BY UnitTyped DEF NonZero, Number
<1>3. TimesPu(u) \in UnitType /\ TimesPu(v) \in UnitType
  BY TimesPuTyped
<1>4. convert_with_bases(x, u, v, p, q) =
        IF is_default(u) \/ is_default(v) THEN x
        ELSE IF per_unit(u) = per_unit(v)
        THEN IF Of(u) = NaN /\ per_unit(u) /\ (u = v \/ has_same_base(u.base, v.base))
             THEN BetweenBases(x, u, v, p, q)
             ELSE convert(x, u, v)
        ELSE IF has_same_base(u.base, v.base) THEN BetweenPerUnit(x, u, v, Of(v))
        ELSE IF v = pu THEN (x // Of(u)) ** u.multiplier
        ELSE IF per_unit(v) THEN convert(x // Of(u), TimesPu(u), v) // v.multiplier
        ELSE IF u = pu THEN (x ** Of(v)) ** u.multiplier
        ELSE (convert(x, u, TimesPu(v)) ** Of(v)) ** u.multiplier
  BY DEF convert_with_bases
<1> HIDE DEF Of, TimesPu
<1>5. BetweenBases(x, u, v, p, q) \in Number
  <2>1. (x ** p) // q \in Number
    BY <1>2, NumberFormulas
  <2> QED  BY <2>1, ScaledTyped DEF BetweenBases
<1>6. convert(x, u, v) \in Number
  BY ConvertTyped
<1>7. BetweenPerUnit(x, u, v, Of(v)) \in Number
  BY <1>1, PerUnitTyped
<1>8. x // Of(u) \in Number /\ x ** Of(v) \in Number
  BY <1>1, NumberFormulas
<1>9. convert(x // Of(u), TimesPu(u), v) \in Number
  BY <1>3, <1>8, ConvertTyped
<1>10. convert(x, u, TimesPu(v)) \in Number
  BY <1>3, ConvertTyped
<1>11. convert(x, u, TimesPu(v)) ** Of(v) \in Number
  BY <1>1, <1>10, NumberFormulas
<1>12. /\ (x // Of(u)) ** u.multiplier \in Number
       /\ convert(x // Of(u), TimesPu(u), v) // v.multiplier \in Number
       /\ (x ** Of(v)) ** u.multiplier \in Number
       /\ (convert(x, u, TimesPu(v)) ** Of(v)) ** u.multiplier \in Number
  BY <1>2, <1>8, <1>9, <1>11, NumberFormulas
<1> QED  BY <1>4, <1>5, <1>6, <1>7, <1>12

(***************************************************************************)
(* The conversions a client calls, undone.                                 *)
(***************************************************************************)
\* A kilo stands for two quantities, and the logarithm of zero for none.
Excused(u) == u = kilo \/ (equation(u) /\ eq_type(u.base) < 16)

GivenBack(u, x, z) == z = x \/ (z = NaN /\ Excused(u))

\* The units whose conversions can be undone are units.
LEMMA UndoableTyped ==
  ASSUME NEW u \in Undoable
  PROVE  u \in UnitType
<1>1. u.multiplier \in Finite /\ u.base \in UnitDataType
      /\ u = [multiplier |-> u.multiplier, base |-> u.base]
  BY UndoableFacts
<1> QED  BY <1>1 DEF UnitType

\* convert undoes what convert did.
LEMMA ConvertUndone ==
  ASSUME NEW u \in Undoable, NEW v \in Undoable, NEW x \in Finite,
         convert(x, u, v) \in Finite
  PROVE  GivenBack(u, x, convert(convert(x, u, v), v, u))
<1> DEFINE y == convert(x, u, v)
           FromU(w) == ConvertVia(x, w, v, NaN, NaN)
           FromV(w) == ConvertVia(y, w, u, NaN, NaN)
           a == FromU(kg)
           b == FromU(km)
           c == FromV(kg)
           d == FromV(km)
<1>1. y = ConvertVia(x, u, v, a, b)
  BY DEF convert
<1>2. convert(y, v, u) = ConvertVia(y, v, u, c, d)
  BY DEF convert
<1> HIDE DEF a, b, c, d
<1>3. LET z == ConvertVia(ConvertVia(x, u, v, a, b), v, u, c, d)
      IN \/ z = x
         \/ z = NaN /\ equation(u) /\ eq_type(u.base) < 16
         \/ z = NaN /\ TakenForKilo(u, v)
  BY <1>1, ViaUndone
<1> QED  BY <1>1, <1>2, <1>3 DEF GivenBack, Excused, TakenForKilo

\* What is no number converts to none.
LEMMA ViaOfNaN ==
  ASSUME NEW u, NEW v
  PROVE  ConvertVia(NaN, u, v, NaN, NaN) = NaN
<1>1. Scaled(NaN, u, v) = NaN
  BY NaNAbsorbs DEF Scaled
<1>2. \A w : convert_equnit_to_value(NaN, w) = NaN /\ convert_value_to_equnit(NaN, w) = NaN
  BY EquationOfNaN
<1>3. convertFlaggedUnits(NaN, u, v, NaN) = NaN
  BY <1>1, NaNAbsorbs
     DEF convertFlaggedUnits, convertTemperature, ToCelsius, FromCelsius
<1>4. convertCountingUnits(NaN, u, v) = NaN
  BY <1>1, NaNAbsorbs DEF convertCountingUnits
<1>5. extraValidConversions(NaN, u, v) = NaN
  BY <1>1, NaNAbsorbs DEF extraValidConversions
<1>6. otherUsefulConversions(NaN, u, v, NaN, NaN) = NaN
  BY <1>1, NaNAbsorbs DEF otherUsefulConversions
<1>7. knownConversions(NaN, u.base, v.base) = NaN
  BY NaNAbsorbs DEF knownConversions
<1>8. \A base : BetweenPerUnit(NaN, u, v, base) = NaN
  BY <1>1, NaNAbsorbs DEF BetweenPerUnit
<1>9. 1 // ((NaN ** u.multiplier) ** v.multiplier) = NaN
  BY NaNAbsorbs
<1>10. ConvertDistinct(NaN, u, v, NaN, NaN) = NaN
  BY <1>1, <1>4, <1>5, <1>6, <1>7, <1>8, <1>9 DEF ConvertDistinct
<1> QED  BY <1>1, <1>2, <1>3, <1>10 DEF ConvertVia

\* What is no number is converted to none.
LEMMA ConvertOfNaN ==
  ASSUME NEW u, NEW v
  PROVE  convert(NaN, u, v) = NaN
BY ViaOfNaN DEF convert

\* A conversion with one base value.
LEMMA WithBaseUndone ==
  ASSUME NEW u \in Undoable, NEW v \in Undoable, NEW x \in Finite, NEW base \in NonZero,
         convert_with_base(x, u, v, base) \in Finite
  PROVE  GivenBack(u, x, convert_with_base(convert_with_base(x, u, v, base), v, u, base))
<1> DEFINE y == convert_with_base(x, u, v, base)
           flag == e_flag(u) \/ e_flag(v)
           same == has_same_base(u.base, v.base)
<1>0. base \in Number /\ u.multiplier \in NonZero /\ v.multiplier \in NonZero
  BY UndoableFacts DEF NonZero, Number
<1>1. Trivial(v, u) <=> Trivial(u, v)
  BY RulesBothWays
<1>2. \A w \in Finite :
        /\ same => (IsNumber(convertFlaggedUnits(w, u, v, base)) <=> FlagsConvert(u, v))
        /\ same => (IsNumber(convertFlaggedUnits(w, v, u, base)) <=> FlagsConvert(u, v))
  <2> TAKE w \in Finite
  <2>1. same => (IsNumber(convertFlaggedUnits(w, u, v, base)) <=> FlagsConvert(u, v))
    BY <1>0, FlaggedUndone
  <2>2. same => has_same_base(v.base, u.base)
    BY DEF has_same_base
  <2>3. same => /\ IsNumber(convertFlaggedUnits(w, v, u, base)) <=> FlagsConvert(v, u)
                /\ FlagsConvert(v, u) <=> FlagsConvert(u, v)
    BY <1>0, <2>2, FlaggedUndone
  <2> QED  BY <2>1, <2>3
<1>3. \A w \in Finite :
        convert_with_base(w, u, v, base) =
          IF Trivial(u, v) THEN w
          ELSE IF u.base = v.base THEN Scaled(w, u, v)
          ELSE IF per_unit(u) # per_unit(v) THEN BetweenPerUnit(w, u, v, base)
          ELSE IF flag /\ same /\ FlagsConvert(u, v) THEN convertFlaggedUnits(w, u, v, base)
          ELSE convert(w, u, v)
  BY <1>2 DEF convert_with_base, Trivial
<1>4. \A w \in Finite :
        convert_with_base(w, v, u, base) =
          IF Trivial(u, v) THEN w
          ELSE IF u.base = v.base THEN Scaled(w, v, u)
          ELSE IF per_unit(u) # per_unit(v) THEN BetweenPerUnit(w, v, u, base)
          ELSE IF flag /\ same /\ FlagsConvert(u, v) THEN convertFlaggedUnits(w, v, u, base)
          ELSE convert(w, v, u)
  <2> TAKE w \in Finite
  <2>1. has_same_base(v.base, u.base) <=> same
    BY DEF has_same_base
  <2> QED  BY <1>1, <1>2, <2>1 DEF convert_with_base, Trivial
<1>5. CASE Trivial(u, v)
  BY <1>3, <1>4, <1>5 DEF GivenBack
<1>6. CASE ~Trivial(u, v) /\ u.base = v.base
  <2>1. y = Scaled(x, u, v)
    BY <1>3, <1>6
  <2>2. Scaled(y, v, u) = x
    BY <1>0, <2>1, Scaling
  <2> QED  BY <1>4, <1>6, <2>2 DEF GivenBack
<1>7. CASE ~Trivial(u, v) /\ u.base # v.base /\ per_unit(u) # per_unit(v)
  <2>1. y = BetweenPerUnit(x, u, v, base)
    BY <1>3, <1>7
  <2>2. BetweenPerUnit(y, v, u, base) = x
    BY <1>7, <2>1, PerUnitUndone, Digits
  <2> QED  BY <1>4, <1>7, <2>2 DEF GivenBack
<1>8. CASE /\ ~Trivial(u, v) /\ u.base # v.base /\ per_unit(u) = per_unit(v)
           /\ flag /\ same /\ FlagsConvert(u, v)
  <2>1. y = convertFlaggedUnits(x, u, v, base)
    BY <1>3, <1>8
  <2>2. convertFlaggedUnits(y, v, u, base) = x
    BY <1>0, <1>8, <2>1, FlaggedUndone
  <2> QED  BY <1>4, <1>8, <2>2 DEF GivenBack
<1>9. CASE /\ ~Trivial(u, v) /\ u.base # v.base /\ per_unit(u) = per_unit(v)
           /\ ~(flag /\ same /\ FlagsConvert(u, v))
  <2>1. y = convert(x, u, v)
    BY <1>3, <1>9
  <2>2. GivenBack(u, x, convert(y, v, u))
    BY <2>1, ConvertUndone
  <2>3. convert_with_base(y, v, u, base) = convert(y, v, u)
    BY <1>4, <1>9
  <2> QED  BY <2>2, <2>3
<1> QED  BY <1>5, <1>6, <1>7, <1>8, <1>9

(***************************************************************************)
(* A conversion with two base values.                                      *)
(***************************************************************************)
PerUnitOf(u) == unit(u.multiplier, Times(u.base, pu.base))

\* A quantity with a base has no radians, so the number of its equation has
\* no bit for them, and the per_unit flag makes no wind scale of it.
LEMMA PerUnitOfBased ==
  ASSUME NEW u \in Undoable, NEW p, NEW q, generate_base(u.base, p, q) # NaN
  PROVE  /\ PerUnitOf(u) \in Undoable
         /\ Excused(PerUnitOf(u)) => Excused(u)
<1> DEFINE t == Times(u.base, pu.base)
<1>1. u.base \in UnitDataType /\ pu.base \in UnitDataType /\ InFields(u.base)
      /\ u.multiplier \in NonZero /\ \A b \in Base : u.base.exp[b] \in Int
  BY UndoableFacts, NamedUnits
<1>2. [b \in Base |-> u.base.exp[b] + pu.base.exp[b]] \in [Base -> Int]
  BY <1>1 DEF UnitDataType
<1>3. XorOn({"i_flag"}, u.base.flags, pu.base.flags) \in SUBSET Flag
  BY <1>1 DEF UnitDataType, XorOn, Xor
<1>4. /\ t \in UnitDataType /\ InFields(t)
      /\ \A b \in Base : t.exp[b] = Wrap(b, u.base.exp[b] + pu.base.exp[b])
  BY <1>2, <1>3, StoreTyped DEF Times
<1>5. \A b \in Base : t.exp[b] = u.base.exp[b]
  <2> TAKE b \in Base
  <2>1. u.base.exp[b] + pu.base.exp[b] = u.base.exp[b]
    BY <1>1, NoExponents
  <2>2. MinVal(b) <= u.base.exp[b] /\ u.base.exp[b] <= MaxVal(b)
    BY <1>1 DEF InFields
  <2>3. Wrap(b, u.base.exp[b]) = u.base.exp[b]
    BY <1>1, <2>2, WrapFits
  <2> QED  BY <1>4, <2>1, <2>3
<1>6. "equation" \in t.flags <=> "equation" \in u.base.flags
  BY PlainNumbers DEF Times, unit_data, XorOn, Xor
<1>7. "per_unit" \in t.flags
  BY PlainNumbers DEF Times, unit_data, XorOn, Xor
<1>8. u.base.exp["radian"] = 0 /\ "radian" \in Base
  BY NamedBases DEF generate_base, has_same_base
<1>9. \A w : w.exp["radian"] = 0 => eq_type(w) < 16
  BY DEF eq_type, FlagBits, If
<1>10. eq_type(t) < 16 /\ eq_type(u.base) < 16
  BY <1>5, <1>8, <1>9
<1> HIDE DEF t
<1>11. eq_type(t) \notin {22, 23}
  BY <1>10
<1>12. PerUnitOf(u) = [multiplier |-> u.multiplier, base |-> t]
  BY DEF PerUnitOf, unit, t
<1>13. PerUnitOf(u) \in Undoable
  BY <1>1, <1>4, <1>11, <1>12 DEF Undoable
<1>14. PerUnitOf(u) # kilo
  BY <1>7, <1>12, PlainNumbers
<1>15. equation(PerUnitOf(u)) => equation(u)
  BY <1>6, <1>12 DEF equation
<1> QED  BY <1>10, <1>13, <1>14, <1>15 DEF Excused

\* The operations with one.
LEMMA ByOne ==
  \A x \in Finite : x ** 1 = x /\ x // 1 = x
<1> TAKE x \in Finite
<1>1. 1 \in NonZero /\ 1 \in Finite
  BY Digits
<1>2. x ** 1 = x
  BY <1>1, ProductLaws
<1>3. x // 1 = x
  BY <1>1, QuotientLaws
<1> QED  BY <1>2, <1>3

\* The operations with one, on any number.
LEMMA TimesOne ==
  \A x \in Number : /\ x ** 1 \in Finite => x ** 1 = x /\ x \in Finite
                    /\ x // 1 \in Finite => x // 1 = x /\ x \in Finite
BY ByOne, NaNAbsorbs, Digits DEF Number

\* Changes of a quantity, between units without a multiplier: y is what x
\* becomes, z what that becomes the other way, when f is the base value of
\* the quantity that is not per unit.
LEMMA ToPerUnit ==
  ASSUME NEW u \in Undoable, NEW v \in Undoable, NEW x \in Finite,
         NEW p \in NonZero, NEW q \in NonZero, NEW y,
         y = convert(x // generate_base(u.base, p, q), PerUnitOf(u), v) // 1,
         y \in Finite
  PROVE  GivenBack(u, x, (convert(y, v, PerUnitOf(u)) ** generate_base(u.base, p, q)) ** 1)
<1> DEFINE f == generate_base(u.base, p, q)
           t == PerUnitOf(u)
           w == x // f
           c == convert(w, t, v)
<1>1. f \in NonZero \cup {NaN}
  BY BaseOfQuantity
<1>2. f # NaN
  <2> SUFFICES ASSUME f = NaN PROVE FALSE
    OBVIOUS
  <2> HIDE DEF f
  <2>1. w = NaN
    BY NaNAbsorbs
  <2> HIDE DEF w
  <2>2. c = NaN
    BY <2>1, ConvertOfNaN
  <2> HIDE DEF c
  <2>3. y = c // 1
    BY DEF c, w, f
  <2> QED  BY <2>2, <2>3, NaNAbsorbs, Digits
<1>3. f \in NonZero
  BY <1>1, <1>2
<1>4. t \in Undoable /\ (Excused(t) => Excused(u))
  BY <1>2, PerUnitOfBased
<1>y. y = c // 1
  OBVIOUS
<1> HIDE DEF f, t
<1>5. w \in Finite /\ w ** f = x
  BY <1>3, QuotientLaws
<1> HIDE DEF w
<1>6. c \in Number
  <2>1. t \in UnitType /\ v \in UnitType
    BY <1>4, UndoableTyped
  <2>2. w \in Number
    BY <1>5 DEF Number
  <2> QED  BY <2>1, <2>2, ConvertTyped
<1>7. c \in Finite /\ y = c
  <2> HIDE DEF c
  <2> QED  BY <1>6, <1>y, TimesOne
<1>8. GivenBack(t, w, convert(y, v, t))
  BY <1>4, <1>5, <1>7, ConvertUndone
<1>9. CASE convert(y, v, t) = w
  <2>1. (w ** f) ** 1 = x
    BY <1>5, ByOne
  <2> QED  BY <1>9, <2>1 DEF GivenBack, f, t
<1>10. CASE convert(y, v, t) = NaN /\ Excused(t)
  <2>1. (NaN ** f) ** 1 = NaN
    BY NaNAbsorbs
  <2> QED  BY <1>4, <1>10, <2>1 DEF GivenBack, f, t
<1> QED  BY <1>8, <1>9, <1>10 DEF GivenBack

\* The other way, f being the base value of the quantity converted to.
LEMMA FromPerUnit ==
  ASSUME NEW u \in Undoable, NEW v \in Undoable, NEW x \in Finite,
         NEW p \in NonZero, NEW q \in NonZero, NEW y,
         y = (convert(x, u, PerUnitOf(v)) ** generate_base(v.base, p, q)) ** 1,
         y \in Finite
  PROVE  GivenBack(u, x, convert(y // generate_base(v.base, p, q), PerUnitOf(v), u) // 1)
<1> DEFINE f == generate_base(v.base, p, q)
           t == PerUnitOf(v)
           c == convert(x, u, t)
<1>1. f \in NonZero \cup {NaN}
  BY BaseOfQuantity
<1>y. y = (c ** f) ** 1
  OBVIOUS
<1>2. f # NaN
  <2> SUFFICES ASSUME f = NaN PROVE FALSE
    OBVIOUS
  <2> HIDE DEF f, c
  <2> QED  BY <1>y, NaNAbsorbs, Digits
<1>3. f \in NonZero
  BY <1>1, <1>2
<1>4. t \in Undoable
  BY <1>2, PerUnitOfBased
<1> HIDE DEF f, t
<1>5. c \in Number /\ f \in Number
  <2>1. t \in UnitType /\ u \in UnitType
    BY <1>4, UndoableTyped
  <2>2. x \in Number
    BY DEF Number
  <2> QED  BY <1>3, <2>1, <2>2, ConvertTyped DEF NonZero, Number
<1>6. c ** f \in Number
  BY <1>5, NumberFormulas
<1>7. y = c ** f /\ c ** f \in Finite
  <2> HIDE DEF c
  <2> QED  BY <1>6, <1>y, TimesOne
<1>8. c \in Finite
  <2> HIDE DEF c
  <2> QED  BY <1>5, <1>7, NumberResults
<1>9. y // f = c
  <2> HIDE DEF c
  <2> QED  BY <1>3, <1>7, <1>8, QuotientLaws
<1>10. GivenBack(u, x, convert(c, t, u))
  BY <1>4, <1>8, ConvertUndone
<1>11. convert(c, t, u) \in {x, NaN}
  BY <1>10 DEF GivenBack
<1>12. convert(c, t, u) // 1 = convert(c, t, u)
  BY <1>11, ByOne, NaNAbsorbs
<1> QED  BY <1>9, <1>10, <1>12 DEF f, t

\* When two bases are given: the changes that the multipliers, or a base
\* that is not known, make count again.
LEMMA WithBasesCases ==
  ASSUME NEW u, NEW v, NEW x, NEW p, NEW q
  PROVE  convert_with_bases(x, u, v, p, q) =
           IF is_default(u) \/ is_default(v) THEN x
           ELSE IF per_unit(u) = per_unit(v)
           THEN IF /\ generate_base(u.base, p, q) = NaN /\ per_unit(u)
                   /\ u = v \/ has_same_base(u.base, v.base)
                THEN BetweenBases(x, u, v, p, q)
                ELSE convert(x, u, v)
           ELSE IF has_same_base(u.base, v.base)
           THEN BetweenPerUnit(x, u, v, generate_base(v.base, p, q))
           ELSE IF v = pu THEN (x // generate_base(u.base, p, q)) ** u.multiplier
           ELSE IF per_unit(v)
           THEN convert(x // generate_base(u.base, p, q), PerUnitOf(u), v) // v.multiplier
           ELSE IF u = pu THEN (x ** generate_base(v.base, p, q)) ** u.multiplier
           ELSE (convert(x, u, PerUnitOf(v)) ** generate_base(v.base, p, q)) ** u.multiplier
BY DEF convert_with_bases, PerUnitOf

\* A conversion with two base values is undone, if both base values count
\* once and no multiplier counts in one direction only.
LEMMA WithBasesUndone ==
  ASSUME NEW u \in Undoable, NEW v \in Undoable, NEW x \in Finite,
         NEW p \in NonZero, NEW q \in NonZero,
         convert_with_bases(x, u, v, p, q) \in Finite,
         ~(per_unit(u) /\ per_unit(v) /\ generate_base(u.base, p, q) = NaN),
         ~OneSided(u, v)
  PROVE  GivenBack(u, x, convert_with_bases(convert_with_bases(x, u, v, p, q), v, u, p, q))
<1> DEFINE y == convert_with_bases(x, u, v, p, q)
           z == convert_with_bases(y, v, u, p, q)
           fu == generate_base(u.base, p, q)
           fv == generate_base(v.base, p, q)
           default == is_default(u) \/ is_default(v)
           same == has_same_base(u.base, v.base)
<1>1. has_same_base(v.base, u.base) <=> same
  BY DEF has_same_base
<1>2. y = IF default THEN x
          ELSE IF per_unit(u) = per_unit(v)
          THEN IF fu = NaN /\ per_unit(u) /\ (u = v \/ same)
               THEN BetweenBases(x, u, v, p, q) ELSE convert(x, u, v)
          ELSE IF same THEN BetweenPerUnit(x, u, v, fv)
          ELSE IF v = pu THEN (x // fu) ** u.multiplier
          ELSE IF per_unit(v) THEN convert(x // fu, PerUnitOf(u), v) // v.multiplier
          ELSE IF u = pu THEN (x ** fv) ** u.multiplier
          ELSE (convert(x, u, PerUnitOf(v)) ** fv) ** u.multiplier
  BY WithBasesCases
<1>3. z = IF default THEN y
          ELSE IF per_unit(u) = per_unit(v)
          THEN IF fv = NaN /\ per_unit(v) /\ (v = u \/ same)
               THEN BetweenBases(y, v, u, p, q) ELSE convert(y, v, u)
          ELSE IF same THEN BetweenPerUnit(y, v, u, fu)
          ELSE IF u = pu THEN (y // fv) ** v.multiplier
          ELSE IF per_unit(u) THEN convert(y // fv, PerUnitOf(v), u) // u.multiplier
          ELSE IF v = pu THEN (y ** fu) ** v.multiplier
          ELSE (convert(y, v, PerUnitOf(u)) ** fu) ** v.multiplier
  <2>1. z = IF is_default(v) \/ is_default(u) THEN y
          ELSE IF per_unit(v) = per_unit(u)
          THEN IF fv = NaN /\ per_unit(v) /\ (v = u \/ has_same_base(v.base, u.base))
               THEN BetweenBases(y, v, u, p, q) ELSE convert(y, v, u)
          ELSE IF has_same_base(v.base, u.base) THEN BetweenPerUnit(y, v, u, fu)
          ELSE IF u = pu THEN (y // fv) ** v.multiplier
          ELSE IF per_unit(u) THEN convert(y // fv, PerUnitOf(v), u) // u.multiplier
          ELSE IF v = pu THEN (y ** fu) ** v.multiplier
          ELSE (convert(y, v, PerUnitOf(u)) ** fu) ** v.multiplier
    BY WithBasesCases
  <2> QED  BY <1>1, <2>1
<1>4. same => fu = fv
  BY DEF generate_base, has_same_base
<1>5. fu \in NonZero \cup {NaN} /\ fv \in NonZero \cup {NaN}
  BY BaseOfQuantity
<1>6. y \in Finite /\ NaN \notin Finite
  BY Digits
<1>7. ~(per_unit(u) /\ per_unit(v) /\ fu = NaN)
  OBVIOUS
<1>8. per_unit(pu)
  BY PlainNumbers DEF per_unit
<1> HIDE DEF y, z, fu, fv
<1>9. CASE default
  BY <1>2, <1>3, <1>9 DEF GivenBack, y, z
<1>10. CASE ~default /\ per_unit(u) = per_unit(v)
  <2>1. ~(fu = NaN /\ per_unit(u) /\ (u = v \/ same))
    BY <1>7, <1>10
  <2>2. ~(fv = NaN /\ per_unit(v) /\ (v = u \/ same))
    BY <1>4, <1>7, <1>10 DEF fu, fv
  <2>3. y = convert(x, u, v) /\ z = convert(y, v, u)
    BY <1>2, <1>3, <1>10, <2>1, <2>2
  <2> QED  BY <1>6, <2>3, ConvertUndone DEF y, z
<1>11. CASE ~default /\ per_unit(u) # per_unit(v) /\ same
  <2>1. y = BetweenPerUnit(x, u, v, fu) /\ z = BetweenPerUnit(y, v, u, fu)
    BY <1>2, <1>3, <1>4, <1>11
  <2>2. fu # NaN
    <3> SUFFICES ASSUME fu = NaN PROVE FALSE
      OBVIOUS
    <3>1. BetweenPerUnit(x, u, v, NaN) = NaN
      BY <1>11, NaNAbsorbs DEF BetweenPerUnit, Scaled, per_unit
    <3> QED  BY <1>6, <2>1, <3>1
  <2>3. fu \in NonZero
    BY <1>5, <2>2
  <2>4. z = x
    BY <1>6, <1>11, <2>1, <2>3, PerUnitUndone
  <2> QED  BY <2>4 DEF GivenBack, y, z
<1> DEFINE change == ~default /\ per_unit(u) # per_unit(v) /\ ~same
<1>12. change => u.multiplier = 1 /\ v.multiplier = 1
  BY DEF OneSided
<1>13. CASE change /\ v = pu
  <2>1. u # pu /\ ~per_unit(u)
    BY <1>8, <1>13
  <2>2. y = (x // fu) ** 1 /\ z = (y ** fu) ** 1
    BY <1>2, <1>3, <1>12, <1>13, <2>1
  <2>3. fu \in NonZero
    BY <1>5, <1>6, <2>2, NaNAbsorbs
  <2>4. x // fu \in Finite /\ (x // fu) ** fu = x
    BY <2>3, QuotientLaws
  <2>5. z = x
    BY <2>2, <2>4, ByOne
  <2> QED  BY <2>5 DEF GivenBack, y, z
<1>14. CASE change /\ v # pu /\ per_unit(v)
  <2>1. u # pu /\ ~per_unit(u)
    BY <1>8, <1>14 DEF per_unit
  <2>2. y = convert(x // fu, PerUnitOf(u), v) // 1
        /\ z = (convert(y, v, PerUnitOf(u)) ** fu) ** 1
    BY <1>2, <1>3, <1>12, <1>14, <2>1
  <2>3. GivenBack(u, x, z)
    BY <1>6, <2>2, ToPerUnit DEF fu
  <2> QED  BY <2>3 DEF y, z
<1>15. CASE change /\ ~per_unit(v) /\ u = pu
  <2>1. v # pu
    BY <1>8, <1>15
  <2>2. y = (x ** fv) ** 1 /\ z = (y // fv) ** 1
    BY <1>2, <1>3, <1>12, <1>15, <2>1
  <2>3. fv \in NonZero
    BY <1>5, <1>6, <2>2, NaNAbsorbs
  <2>4. x ** fv \in Finite /\ (x ** fv) // fv = x
    BY <2>3, QuotientLaws
  <2>5. z = x
    BY <2>2, <2>4, ByOne
  <2> QED  BY <2>5 DEF GivenBack, y, z
<1>16. CASE change /\ ~per_unit(v) /\ u # pu
  <2>1. v # pu /\ per_unit(u)
    BY <1>8, <1>16 DEF per_unit
  <2>2. y = (convert(x, u, PerUnitOf(v)) ** fv) ** 1
        /\ z = convert(y // fv, PerUnitOf(v), u) // 1
    BY <1>2, <1>3, <1>12, <1>16, <2>1
  <2>3. GivenBack(u, x, z)
    BY <1>6, <2>2, FromPerUnit DEF fv
  <2> QED  BY <2>3 DEF y, z
<1>17. per_unit(u) # per_unit(v) \/ per_unit(u) = per_unit(v)
  OBVIOUS
<1>18. v = pu => per_unit(v)
  BY <1>8
<1> QED
  BY <1>9, <1>10, <1>11, <1>13, <1>14, <1>15, <1>16, <1>18

(***************************************************************************)
(* The chain of conversions.                                               *)
(***************************************************************************)
LEMMA ClientBases ==
  /\ Unit \subseteq UnitType /\ Value \subseteq Finite
  /\ BasePower \in NonZero /\ BaseVoltage \in NonZero
  /\ BasePower \in Number
BY MeasurementAssumption DEF UnitType, NonZero, Number

\* What the client calls gives numbers.
LEMMA ClientTyped ==
  ASSUME NEW u \in UnitType, NEW v \in UnitType, NEW x \in Number, bases \in 0..2
  PROVE  Convert(x, u, v) \in Number
<1>1. convert(x, u, v) \in Number
  BY ConvertTyped
<1>2. convert_with_base(x, u, v, BasePower) \in Number
  BY ClientBases, WithBaseTyped
<1>3. convert_with_bases(x, u, v, BasePower, BaseVoltage) \in Number
  BY ClientBases, WithBasesTyped
<1>4. bases = 0 \/ bases = 1 \/ bases = 2
  OBVIOUS
<1> QED  BY <1>1, <1>2, <1>3, <1>4 DEF Convert

\* The units a chain may be in: those named, and those of convert_to_base.
Reached == Unit \cup {unit(1, u.base) : u \in Unit}

\* Those are units, and remain so.
LEMMA ReachedTyped ==
  /\ Reached \subseteq UnitType
  /\ \A u \in Reached : unit(1, u.base) \in Reached
<1>1. 1 \in Finite
  BY Digits
<1>2. \A u \in Unit : unit(1, u.base) \in UnitType
  BY <1>1, ClientBases DEF unit, UnitType
<1>3. \A u \in Unit : unit(1, u.base).base = u.base
  BY DEF unit
<1> QED  BY <1>2, <1>3, ClientBases DEF Reached

\* TypeOK of a chain: conversions between any units, with any bases, leave
\* numbers or NaN, in a unit that was named or in its base unit.
THEOREM ChainTypeCorrect == ChainSpec => []ChainTypeOK
<1> USE DEF Reached
<1>1. ChainInit => ChainTypeOK
  <2> SUFFICES ASSUME ChainInit PROVE ChainTypeOK
    OBVIOUS
  <2>1. meas.value \in Value /\ meas.units \in Unit
    BY DEF ChainInit
  <2>2. meas.value \in Number
    BY <2>1, ClientBases DEF Number
  <2> QED  BY <2>1, <2>2, MeasurementAssumption DEF ChainInit, ChainTypeOK
<1>2. ChainTypeOK /\ [ChainNext]_chainVars => ChainTypeOK'
  <2> SUFFICES ASSUME ChainTypeOK, [ChainNext]_chainVars PROVE ChainTypeOK'
    OBVIOUS
  <2>1. meas.units \in Reached /\ meas.units \in UnitType /\ meas.value \in Number
    BY ReachedTyped DEF ChainTypeOK
  <2>2. ASSUME NEW m, Become(m), m.value \in Number, m.units \in Reached,
               based' \subseteq visited
        PROVE  ChainTypeOK'
    <3>1. conversions + 1 \in 0..MaxConversions
      BY <2>2, MeasurementAssumption DEF Become, ChainTypeOK
    <3> QED  BY <2>2, <3>1 DEF Become, ChainTypeOK
  <2>3. CASE \E u \in Unit : convert_to(u)
    <3> PICK u \in Unit : convert_to(u)
      BY <2>3
    <3> DEFINE m == measurement(Convert(meas.value, meas.units, u), u)
    <3>1. u \in UnitType
      BY ClientBases
    <3>2. m.value \in Number /\ m.units \in Reached
      BY <2>1, <3>1, ClientTyped DEF measurement, ChainTypeOK
    <3>3. Become(m) /\ based' \subseteq visited
      BY DEF convert_to, ChainTypeOK
    <3> HIDE DEF m
    <3> QED  BY <2>2, <3>2, <3>3
  <2>4. CASE convert_to_base
    <3>1. meas.units.multiplier \in Number
      BY <2>1, UnitTyped
    <3>2. meas.value ** meas.units.multiplier \in Number
      BY <2>1, <3>1, NumberFormulas
    <3>3. BaseOf(meas).value \in Number /\ BaseOf(meas).units \in Reached
      BY <2>1, <3>2, ReachedTyped DEF BaseOf, measurement
    <3>4. Become(BaseOf(meas)) /\ based' \subseteq visited
      BY <2>4 DEF convert_to_base, ChainTypeOK
    <3> QED  BY <2>2, <3>3, <3>4
  <2>5. CASE UNCHANGED chainVars
    BY <2>5 DEF chainVars, ChainTypeOK
  <2> QED  BY <2>3, <2>4, <2>5 DEF ChainNext
<1> QED  BY <1>1, <1>2, PTL DEF ChainSpec

(***************************************************************************)
(* There and back.                                                         *)
(***************************************************************************)
LEMMA ReachedUndoable ==
  ASSUME \A u \in Unit : Undone(u)
  PROVE  Reached \subseteq Undoable
<1>1. \A u \in Unit : u \in Undoable
  BY MeasurementAssumption DEF Undoable, Undone, NonZero
<1>2. ASSUME NEW u \in Unit PROVE unit(1, u.base) \in Undoable
  <2>1. u \in Undoable /\ 1 \in NonZero
    BY <1>1, Digits
  <2> QED  BY <2>1 DEF Undoable, unit, equation
<1> QED  BY <1>1, <1>2 DEF Reached

\* What the client calls undoes what it did, for every number of bases.
LEMMA ClientUndone ==
  ASSUME NEW u \in Undoable, NEW v \in Undoable, NEW x \in Finite, bases \in 0..2,
         Convert(x, u, v) \in Finite,
         ~(bases = 2 /\ (Rescales(u, v) \/ OneSided(u, v)))
  PROVE  GivenBack(u, x, Convert(Convert(x, u, v), v, u))
<1> DEFINE p == BasePower
           q == BaseVoltage
<1>1. p \in NonZero /\ q \in NonZero
  BY ClientBases
<1>2. CASE bases = 0
  <2>1. \A w, s, t : Convert(w, s, t) = convert(w, s, t)
    BY <1>2 DEF Convert
  <2> QED  BY <2>1, ConvertUndone
<1>3. CASE bases = 1
  <2>1. \A w, s, t : Convert(w, s, t) = convert_with_base(w, s, t, p)
    BY <1>3 DEF Convert
  <2> QED  BY <1>1, <2>1, WithBaseUndone
<1>4. CASE bases = 2
  <2>1. \A w, s, t : Convert(w, s, t) = convert_with_bases(w, s, t, p, q)
    BY <1>4 DEF Convert
  <2>2. ~(per_unit(u) /\ per_unit(v) /\ generate_base(u.base, p, q) = NaN)
    BY <1>4 DEF Rescales
  <2>3. ~OneSided(u, v)
    BY <1>4
  <2> QED  BY <1>1, <2>1, <2>2, <2>3, WithBasesUndone
<1> QED  BY <1>2, <1>3, <1>4

\* RoundTrip without the excuse of a conversion back that is not possible.
ExactRoundTrip ==
  [][convert_to(meas'.units) /\ IsNumber(meas'.value)
       => \/ GivenBack(meas.units, meas.value,
                       Convert(meas'.value, meas'.units, meas.units))
          \/ bases = 2 /\ (Rescales(meas.units, meas'.units)
                           \/ OneSided(meas.units, meas'.units))]_chainVars

\* Every step of a chain that converts to a unit is undone.
LEMMA StepUndone ==
  ASSUME \A u \in Unit : Undone(u), ChainTypeOK, [ChainNext]_chainVars,
         convert_to(meas'.units), IsNumber(meas'.value),
         ~(bases = 2 /\ (Rescales(meas.units, meas'.units)
                         \/ OneSided(meas.units, meas'.units)))
  PROVE  GivenBack(meas.units, meas.value, Convert(meas'.value, meas'.units, meas.units))
<1>1. meas.units \in Reached /\ meas.units \in Undoable /\ meas.units \in UnitType
      /\ meas.value \in Number /\ bases \in 0..2
  BY ReachedUndoable, ReachedTyped DEF ChainTypeOK, Reached
<1>2. meas' = measurement(Convert(meas.value, meas.units, meas'.units), meas'.units)
      /\ IsNumber(meas.value)
  BY DEF convert_to, Become
<1>3. meas'.value = Convert(meas.value, meas.units, meas'.units)
  BY <1>2 DEF measurement
<1>4. meas'.units \in Reached
  <2>1. CASE \E u \in Unit : convert_to(u)
    <3> PICK u \in Unit : convert_to(u)
      BY <2>1
    <3>1. meas'.units = u
      BY DEF convert_to, Become, measurement
    <3> QED  BY <3>1 DEF Reached
  <2>2. CASE convert_to_base
    <3>1. meas'.units = unit(1, meas.units.base)
      BY <2>2 DEF convert_to_base, Become, BaseOf, measurement
    <3> QED  BY <1>1, <3>1, ReachedTyped
  <2>3. CASE UNCHANGED chainVars
    BY <1>1, <2>3 DEF chainVars
  <2> QED  BY <2>1, <2>2, <2>3 DEF ChainNext
<1>5. meas'.units \in Undoable /\ meas'.units \in UnitType
  BY <1>4, ReachedUndoable, ReachedTyped
<1>6. meas.value \in Finite
  BY <1>1, <1>2, NumberCases
<1>7. Convert(meas.value, meas.units, meas'.units) \in Finite
  <2>1. Convert(meas.value, meas.units, meas'.units) \in Number
    BY <1>1, <1>5, ClientTyped
  <2> QED  BY <1>3, <2>1, NumberCases
<1> DEFINE u == meas.units
           v == meas'.units
           x == meas.value
<1>8. GivenBack(u, x, Convert(Convert(x, u, v), v, u))
  <2> HIDE DEF u, v, x
  <2>1. u \in Undoable /\ v \in Undoable /\ x \in Finite /\ Convert(x, u, v) \in Finite
        /\ ~(bases = 2 /\ (Rescales(u, v) \/ OneSided(u, v)))
    BY <1>1, <1>5, <1>6, <1>7 DEF u, v, x
  <2> QED  BY <1>1, <2>1, ClientUndone
<1> QED  BY <1>3, <1>8

\* RoundTrip, and more: the conversion back is possible and gives what was
\* there before, but for a kilo, or the logarithm of zero.
THEOREM RoundTripExact ==
  ASSUME \A u \in Unit : Undone(u)
  PROVE  ChainSpec => ExactRoundTrip
<1>1. ChainTypeOK /\ [ChainNext]_chainVars =>
        (convert_to(meas'.units) /\ IsNumber(meas'.value)
         => \/ GivenBack(meas.units, meas.value,
                         Convert(meas'.value, meas'.units, meas.units))
            \/ bases = 2 /\ (Rescales(meas.units, meas'.units)
                             \/ OneSided(meas.units, meas'.units)))
  BY StepUndone
<1> QED  BY <1>1, ChainTypeCorrect, PTL DEF ChainSpec, ExactRoundTrip

\* RoundTrip: converting back gives the value there was before or NaN, for
\* any units but those that lose the value, any values and any base values.
THEOREM RoundTripCorrect ==
  ASSUME \A u \in Unit : Undone(u)
  PROVE  ChainSpec => RoundTrip
<1>1. ChainTypeOK /\ [ChainNext]_chainVars =>
        (convert_to(meas'.units) /\ IsNumber(meas'.value)
         => \/ Convert(meas'.value, meas'.units, meas.units) \in {meas.value, NaN}
            \/ bases = 2 /\ (Rescales(meas.units, meas'.units)
                             \/ OneSided(meas.units, meas'.units)))
  BY StepUndone DEF GivenBack
<1> QED  BY <1>1, ChainTypeCorrect, PTL DEF ChainSpec, RoundTrip

\* A conversion that is possible is possible back, for a client that gives
\* one base value or none, if no unit is the logarithm of a quantity.
THEOREM ReversibleCorrect ==
  ASSUME \A u \in Unit : Undone(u) /\ ~(equation(u) /\ eq_type(u.base) < 16)
  PROVE  ChainSpec /\ [](bases # 2) => Reversible
<1>1. ChainTypeOK /\ bases # 2 /\ [ChainNext]_chainVars =>
        (convert_to(meas'.units) /\ IsNumber(meas'.value) /\ meas.units # kilo
         => IsNumber(Convert(meas'.value, meas'.units, meas.units)))
  <2> SUFFICES ASSUME ChainTypeOK, bases # 2, [ChainNext]_chainVars,
                      convert_to(meas'.units), IsNumber(meas'.value), meas.units # kilo
               PROVE  IsNumber(Convert(meas'.value, meas'.units, meas.units))
    OBVIOUS
  <2>1. GivenBack(meas.units, meas.value, Convert(meas'.value, meas'.units, meas.units))
    BY StepUndone
  <2>2. ~Excused(meas.units)
    <3>1. PICK u \in Unit : equation(meas.units) = equation(u)
                            /\ eq_type(meas.units.base) = eq_type(u.base)
      BY DEF ChainTypeOK, unit, equation
    <3> QED  BY <3>1 DEF Excused
  <2>3. IsNumber(meas.value)
    BY DEF convert_to, Become
  <2> QED  BY <2>1, <2>2, <2>3 DEF GivenBack
<1> QED  BY <1>1, ChainTypeCorrect, PTL DEF ChainSpec, Reversible

(***************************************************************************)
(* Whatever the way.  What a value in a unit without flags is worth, apart *)
(* from the multiplier and from the things counted.                        *)
(***************************************************************************)
Unflagged == {u \in Undoable : u.base.flags \cap {"per_unit", "e_flag", "equation"} = {}}

Turn == (2 * Pi) % Prime

\* Radians and moles in plain numbers, where a conversion counts them.
CountedAs(u) ==
  (IF u.base.exp["radian"] \in -2..2 THEN IntegerPower(Turn, -u.base.exp["radian"]) ELSE 1)
  ** (IF u.base.exp["mole"] \in -1..1 THEN IntegerPower(Avogadro, u.base.exp["mole"]) ELSE 1)

Worth(x, u) == (x ** u.multiplier) ** CountedAs(u)

\* None of the rules for flags applies to such units.
LEMMA UnflaggedFacts ==
  ASSUME NEW u \in Unflagged
  PROVE  /\ u \in Undoable /\ ~per_unit(u) /\ ~e_flag(u) /\ ~equation(u)
         /\ ~is_default(u) /\ u # pu
         /\ u.multiplier \in NonZero /\ u.multiplier \in Finite
         /\ \A b \in Base : u.base.exp[b] \in Int
<1>1. u \in Undoable /\ ~per_unit(u) /\ ~e_flag(u) /\ ~equation(u)
  BY DEF Unflagged, per_unit, e_flag, equation
<1>2. "per_unit" \in pu.base.flags /\ "per_unit" \in defunit.base.flags
  BY PlainNumbers
<1> QED  BY <1>1, <1>2, UndoableFacts DEF is_default, per_unit

\* What things are counted as is a number that is not zero, and one where
\* nothing is counted.
LEMMA CountedFacts ==
  ASSUME NEW u, u.base.exp["radian"] \in Int, u.base.exp["mole"] \in Int
  PROVE  /\ CountedAs(u) \in NonZero
         /\ u.base.exp["radian"] = 0 /\ u.base.exp["mole"] = 0 => CountedAs(u) = 1
<1> DEFINE r == u.base.exp["radian"]
           m == u.base.exp["mole"]
           f == IF r \in -2..2 THEN IntegerPower(Turn, -r) ELSE 1
           g == IF m \in -1..1 THEN IntegerPower(Avogadro, m) ELSE 1
<1>1. Turn \in NonZero /\ Avogadro \in NonZero /\ 1 \in NonZero /\ 1 \in Finite
  BY LiteralFacts, Digits DEF Turn
<1>2. r \in -2..2 => -r \in -2..2
  OBVIOUS
<1>3. m \in -1..1 => m \in -2..2
  OBVIOUS
<1>4. f \in NonZero
  BY <1>1, <1>2, PowersInvert
<1>5. g \in NonZero
  BY <1>1, <1>3, PowersInvert
<1>6. IntegerPower(Turn, 0) = 1 /\ IntegerPower(Avogadro, 0) = 1
  <2>1. Turn \in Finite /\ Avogadro \in Finite
    BY <1>1, Digits
  <2>2. PowerMod[<<Turn, 0>>] = 1
    BY <2>1, SmallPowers
  <2>3. PowerMod[<<Avogadro, 0>>] = 1
    BY <2>1, SmallPowers
  <2> QED  BY <2>2, <2>3 DEF IntegerPower
<1>7. r = 0 /\ m = 0 => f = 1 /\ g = 1
  BY <1>6
<1>8. CountedAs(u) = f ** g
  BY DEF CountedAs
<1> HIDE DEF f, g
<1>9. 1 ** 1 = 1
  BY <1>1, ProductLaws
<1> QED  BY <1>4, <1>5, <1>7, <1>8, <1>9, NonZeroClosure

\* A factor on both sides of an equation is left out.
LEMMA Cancel ==
  ASSUME NEW x \in Finite, NEW y \in Finite, NEW z \in NonZero, x ** z = y ** z
  PROVE  x = y
BY QuotientLaws

\* What values are worth tells them apart.
LEMMA WorthFacts ==
  ASSUME NEW u \in Undoable, NEW x \in Finite
  PROVE  /\ Worth(x, u) \in Finite
         /\ \A y \in Finite : Worth(y, u) = Worth(x, u) => y = x
<1>1. u.multiplier \in NonZero /\ \A b \in Base : u.base.exp[b] \in Int
  BY UndoableFacts
<1>2. {"radian", "mole"} \subseteq Base
  BY BaseAssumption
<1>3. CountedAs(u) \in NonZero
  BY <1>1, <1>2, CountedFacts
<1>4. \A y \in Finite : y ** u.multiplier \in Finite /\ Worth(y, u) \in Finite
  BY <1>1, <1>3, QuotientLaws DEF Worth
<1> SUFFICES ASSUME NEW y \in Finite, Worth(y, u) = Worth(x, u) PROVE y = x
  BY <1>4
<1>5. y ** u.multiplier = x ** u.multiplier
  BY <1>3, <1>4, Cancel DEF Worth
<1> QED  BY <1>1, <1>5, Cancel

\* Factors of a value and of what it is worth.
LEMMA WorthOfProduct ==
  ASSUME NEW u \in Undoable, NEW x \in Finite, NEW f \in NonZero
  PROVE  /\ Worth(x ** f, u) = Worth(x, u) ** f
         /\ Worth(x // f, u) ** f = Worth(x, u)
<1>1. u.multiplier \in NonZero /\ \A b \in Base : u.base.exp[b] \in Int
  BY UndoableFacts
<1>2. {"radian", "mole"} \subseteq Base
  BY BaseAssumption
<1> DEFINE m == u.multiplier
           c == CountedAs(u)
<1>3. c \in NonZero /\ m \in NonZero
  BY <1>1, <1>2, CountedFacts
<1> HIDE DEF m, c
<1>4. \A y \in Finite : (((y ** f) ** m) ** c) = ((y ** m) ** c) ** f
  <2> TAKE y \in Finite
  <2>1. (y ** f) ** m = (y ** m) ** f /\ y ** m \in Finite
    BY <1>3, Commute, QuotientLaws
  <2> QED  BY <1>3, <2>1, Commute
<1>5. \A y \in Finite : Worth(y ** f, u) = Worth(y, u) ** f
  BY <1>4 DEF Worth, m, c
<1>6. x // f \in Finite /\ (x // f) ** f = x
  BY QuotientLaws
<1> QED  BY <1>5, <1>6

\* Scaling keeps what a value is worth but for what is counted.
LEMMA WorthOfScaled ==
  ASSUME NEW u \in Undoable, NEW v \in Undoable, NEW x \in Finite
  PROVE  /\ Scaled(x, u, v) \in Finite
         /\ Scaled(x, u, v) ** v.multiplier = x ** u.multiplier
         /\ CountedAs(u) = CountedAs(v) => Worth(Scaled(x, u, v), v) = Worth(x, u)
<1>1. u.multiplier \in NonZero /\ v.multiplier \in NonZero
  BY UndoableFacts
<1>2. x ** u.multiplier \in Finite
  BY <1>1, QuotientLaws
<1>3. Scaled(x, u, v) ** v.multiplier = x ** u.multiplier /\ Scaled(x, u, v) \in Finite
  BY <1>1, <1>2, QuotientLaws DEF Scaled
<1> QED  BY <1>3 DEF Worth

\* A conversion with a factor keeps the worth if the factor makes up for what
\* is counted.
LEMMA WorthOfCounted ==
  ASSUME NEW u \in Undoable, NEW v \in Undoable, NEW x \in Finite, NEW f \in NonZero,
         f ** CountedAs(v) = CountedAs(u)
  PROVE  /\ Scaled(x ** f, u, v) \in Finite
         /\ Worth(Scaled(x ** f, u, v), v) = Worth(x, u)
<1>1. u.multiplier \in NonZero /\ \A b \in Base : v.base.exp[b] \in Int
  BY UndoableFacts
<1>2. {"radian", "mole"} \subseteq Base
  BY BaseAssumption
<1>3. CountedAs(v) \in NonZero
  BY <1>1, <1>2, CountedFacts
<1>4. x ** f \in Finite /\ x ** u.multiplier \in Finite /\ f \in Finite /\ CountedAs(v) \in Finite
  BY <1>1, <1>3, QuotientLaws
<1>5. /\ Scaled(x ** f, u, v) \in Finite
      /\ Scaled(x ** f, u, v) ** v.multiplier = (x ** f) ** u.multiplier
  BY <1>4, WorthOfScaled
<1>6. (x ** f) ** u.multiplier = (x ** u.multiplier) ** f
  BY <1>1, Commute
<1>7. ((x ** u.multiplier) ** f) ** CountedAs(v) = (x ** u.multiplier) ** (f ** CountedAs(v))
  BY <1>4, ProductLaws
<1> QED  BY <1>5, <1>6, <1>7 DEF Worth

\* A power and the power of the opposite exponent.
LEMMA OppositePowers ==
  ASSUME NEW p \in NonZero, NEW n \in -2..2
  PROVE  /\ IntegerPower(p, n) \in NonZero /\ IntegerPower(p, -n) \in NonZero
         /\ IntegerPower(p, n) ** IntegerPower(p, -n) = 1
         /\ n = 0 => IntegerPower(p, n) = 1 /\ IntegerPower(p, -n) = 1
<1> DEFINE f == IntegerPower(p, n)
<1>1. f \in NonZero /\ \A x \in Finite : x ** IntegerPower(p, -n) = x // f
  BY PowersInvert
<1>2. -n \in -2..2
  OBVIOUS
<1>3. IntegerPower(p, -n) \in NonZero
  BY <1>2, PowersInvert
<1>4. f \in Finite /\ 1 \in Finite /\ p \in Finite
  BY <1>1, Digits
<1>5. f // f = 1
  <2>1. 1 ** f = f
    BY <1>4, ProductLaws
  <2>2. (1 ** f) // f = 1
    BY <1>1, <1>4, QuotientLaws
  <2> QED  BY <2>1, <2>2
<1>6. n = 0 => IntegerPower(p, n) = 1 /\ IntegerPower(p, -n) = 1
  <2>1. PowerMod[<<p, 0>>] = 1
    BY <1>4, SmallPowers
  <2> QED  BY <2>1 DEF IntegerPower
<1> QED  BY <1>1, <1>3, <1>4, <1>5, <1>6

\* Converting counting units keeps what a value is worth.
LEMMA WorthOfThings ==
  ASSUME NEW u \in Undoable, NEW v \in Undoable, NEW x \in Finite,
         convertCountingUnits(x, u, v) # NaN
  PROVE  Worth(convertCountingUnits(x, u, v), v) = Worth(x, u)
<1> DEFINE ru == u.base.exp["radian"]
           rv == v.base.exp["radian"]
           mu == u.base.exp["mole"]
           mv == v.base.exp["mole"]
           R(e) == IF e \in -2..2 THEN IntegerPower(Turn, -e) ELSE 1
           M(e) == IF e \in -1..1 THEN IntegerPower(Avogadro, e) ELSE 1
           y == convertCountingUnits(x, u, v)
<1>1. {"mole", "radian", "count"} \subseteq Base
  BY BaseAssumption
<1>2. ru \in Int /\ rv \in Int /\ mu \in Int /\ mv \in Int
  BY <1>1, UndoableFacts
<1>3. CountedAs(u) = R(ru) ** M(mu) /\ CountedAs(v) = R(rv) ** M(mv)
  BY DEF CountedAs
<1>4. \/ mv - mu = 0 /\ rv - ru = 0 /\ y = Scaled(x, u, v)
      \/ /\ mv - mu = 0 /\ rv - ru \in -2..2 /\ 0 \in {ru, rv}
         /\ y = Scaled(x ** IntegerPower(Turn, rv - ru), u, v)
      \/ /\ rv - ru = 0 /\ mv - mu \in -1..1 /\ 0 \in {mu, mv}
         /\ y = Scaled(x ** IntegerPower(Avogadro, -(mv - mu)), u, v)
  <2>1. Replaces(u.base, v.base, "radian", "count") => 0 \in {ru, rv}
    BY DEF Replaces
  <2>2. Replaces(u.base, v.base, "mole", "count") => 0 \in {mu, mv}
    BY DEF Replaces
  <2>3. y = IF /\ mv - mu = 0 /\ rv - ru = 0
               /\ 0 \in {u.base.exp["count"], v.base.exp["count"]}
            THEN Scaled(x, u, v)
            ELSE IF mv - mu = 0 /\ Replaces(u.base, v.base, "radian", "count")
            THEN IF rv - ru \notin -2..2 THEN NaN
                 ELSE Scaled(x ** IntegerPower(Turn, rv - ru), u, v)
            ELSE IF rv - ru = 0 /\ Replaces(u.base, v.base, "mole", "count")
            THEN IF mv - mu \notin -1..1 THEN NaN
                 ELSE Scaled(x ** IntegerPower(Avogadro, -(mv - mu)), u, v)
            ELSE NaN
    BY DEF convertCountingUnits, Turn
  <2>4. y # NaN
    OBVIOUS
  <2> HIDE DEF y, ru, rv, mu, mv
  <2> QED  BY <2>1, <2>2, <2>3, <2>4
<1>5. Turn \in NonZero /\ Avogadro \in NonZero /\ 1 \in Finite
  BY LiteralFacts, Digits DEF Turn
<1>6. \A e \in Int : e = 0 => R(e) = 1 /\ M(e) = 1
  <2> SUFFICES ASSUME NEW e \in Int, e = 0 PROVE R(e) = 1 /\ M(e) = 1
    OBVIOUS
  <2>1. e \in -2..2 /\ e \in -1..1
    OBVIOUS
  <2>2. IntegerPower(Turn, -e) = 1 /\ IntegerPower(Avogadro, e) = 1
    BY <1>5, <2>1, OppositePowers
  <2> QED  BY <2>1, <2>2
<1>7. \A e \in Int : R(e) \in NonZero /\ R(e) \in Finite
  <2> TAKE e \in Int
  <2>1. CASE e \in -2..2
    <3>1. IntegerPower(Turn, -e) \in NonZero
      BY <1>5, <2>1, OppositePowers
    <3> QED  BY <2>1, <3>1, Digits
  <2> QED  BY <2>1, Digits
<1>8. \A e \in Int : M(e) \in NonZero /\ M(e) \in Finite
  <2> TAKE e \in Int
  <2>1. CASE e \in -1..1
    <3>0. e \in -2..2
      BY <2>1
    <3>1. IntegerPower(Avogadro, e) \in NonZero
      BY <1>5, <3>0, OppositePowers
    <3> QED  BY <2>1, <3>1, Digits
  <2> QED  BY <2>1, Digits
<1>9. ASSUME NEW e \in -2..2
      PROVE  /\ IntegerPower(Turn, e) \in NonZero /\ IntegerPower(Turn, e) \in Finite
             /\ IntegerPower(Turn, e) ** R(e) = 1 /\ R(-e) = IntegerPower(Turn, e)
  <2>1. -e \in -2..2 /\ -(-e) = e
    OBVIOUS
  <2>2. R(e) = IntegerPower(Turn, -e) /\ R(-e) = IntegerPower(Turn, e)
    BY <2>1
  <2>3. IntegerPower(Turn, e) \in NonZero /\ IntegerPower(Turn, e) ** IntegerPower(Turn, -e) = 1
    BY <1>5, OppositePowers
  <2> QED  BY <2>2, <2>3, Digits
<1>10. ASSUME NEW e \in -1..1
       PROVE  /\ IntegerPower(Avogadro, -e) \in NonZero /\ IntegerPower(Avogadro, -e) \in Finite
              /\ IntegerPower(Avogadro, -e) ** M(e) = 1 /\ M(-e) = IntegerPower(Avogadro, -e)
  <2>1. -e \in -2..2 /\ -(-e) = e /\ -e \in -1..1
    OBVIOUS
  <2>2. M(e) = IntegerPower(Avogadro, e) /\ M(-e) = IntegerPower(Avogadro, -e)
    BY <2>1
  <2>3. /\ IntegerPower(Avogadro, -e) \in NonZero
        /\ IntegerPower(Avogadro, -e) ** IntegerPower(Avogadro, e) = 1
    BY <1>5, <2>1, OppositePowers
  <2> QED  BY <2>2, <2>3, Digits
<1> HIDE DEF y, ru, rv, mu, mv, R, M
<1>11. CASE mv - mu = 0 /\ rv - ru = 0 /\ y = Scaled(x, u, v)
  <2>1. mv = mu /\ rv = ru
    BY <1>2, <1>11
  <2> QED  BY <1>3, <1>11, <2>1, WorthOfScaled DEF y
<1>12. CASE /\ mv - mu = 0 /\ rv - ru \in -2..2 /\ 0 \in {ru, rv}
            /\ y = Scaled(x ** IntegerPower(Turn, rv - ru), u, v)
  <2> DEFINE d == rv - ru
             f == IntegerPower(Turn, d)
  <2>0. mv = mu /\ d \in -2..2 /\ (ru = 0 \/ rv = 0)
    BY <1>2, <1>12
  <2>a. ru = 0 => rv = d
    BY <1>2
  <2>b. rv = 0 => ru = -d
    BY <1>2
  <2> HIDE DEF d, f
  <2>1. mv = mu /\ d \in -2..2 /\ ((ru = 0 /\ rv = d) \/ (rv = 0 /\ ru = -d))
    BY <2>0, <2>a, <2>b
  <2>2. f \in NonZero /\ f \in Finite /\ f ** R(d) = 1 /\ R(-d) = f
    BY <1>9, <2>1 DEF f
  <2>3. f ** R(rv) = R(ru)
    <3>1. CASE ru = 0 /\ rv = d
      BY <1>2, <1>6, <2>2, <3>1
    <3>2. CASE rv = 0 /\ ru = -d
      <4>1. f ** 1 = f
        BY <1>5, <2>2, ProductLaws
      <4> QED  BY <1>2, <1>6, <2>2, <3>2, <4>1
    <3> QED  BY <2>1, <3>1, <3>2
  <2>4. f ** (R(rv) ** M(mv)) = (f ** R(rv)) ** M(mv)
    BY <1>2, <1>7, <1>8, <2>2, ProductLaws
  <2>5. f ** CountedAs(v) = CountedAs(u)
    BY <1>3, <2>1, <2>3, <2>4
  <2>6. y = Scaled(x ** f, u, v)
    BY <1>12 DEF f, d
  <2> QED  BY <2>2, <2>5, <2>6, WorthOfCounted DEF y
<1>13. CASE /\ rv - ru = 0 /\ mv - mu \in -1..1 /\ 0 \in {mu, mv}
            /\ y = Scaled(x ** IntegerPower(Avogadro, -(mv - mu)), u, v)
  <2> DEFINE d == mv - mu
             f == IntegerPower(Avogadro, -d)
  <2>0. rv = ru /\ d \in -1..1 /\ (mu = 0 \/ mv = 0)
    BY <1>2, <1>13
  <2>a. mu = 0 => mv = d
    BY <1>2
  <2>b. mv = 0 => mu = -d
    BY <1>2
  <2> HIDE DEF d, f
  <2>1. rv = ru /\ d \in -1..1 /\ ((mu = 0 /\ mv = d) \/ (mv = 0 /\ mu = -d))
    BY <2>0, <2>a, <2>b
  <2>2. f \in NonZero /\ f \in Finite /\ f ** M(d) = 1 /\ M(-d) = f
    BY <1>10, <2>1 DEF f
  <2>3. f ** M(mv) = M(mu)
    <3>1. CASE mu = 0 /\ mv = d
      BY <1>2, <1>6, <2>2, <3>1
    <3>2. CASE mv = 0 /\ mu = -d
      <4>1. f ** 1 = f
        BY <1>5, <2>2, ProductLaws
      <4> QED  BY <1>2, <1>6, <2>2, <3>2, <4>1
    <3> QED  BY <2>1, <3>1, <3>2
  <2>4. f ** (R(rv) ** M(mv)) = R(rv) ** (f ** M(mv))
    <3>1. f ** (R(rv) ** M(mv)) = (f ** R(rv)) ** M(mv)
      BY <1>2, <1>7, <1>8, <2>2, ProductLaws
    <3>2. f ** R(rv) = R(rv) ** f
      BY <1>2, <1>7, <2>2, ProductLaws
    <3>3. (R(rv) ** f) ** M(mv) = R(rv) ** (f ** M(mv))
      BY <1>2, <1>7, <1>8, <2>2, ProductLaws
    <3> QED  BY <3>1, <3>2, <3>3
  <2>5. f ** CountedAs(v) = CountedAs(u)
    BY <1>3, <2>1, <2>3, <2>4
  <2>6. y = Scaled(x ** f, u, v)
    BY <1>13 DEF f, d
  <2> QED  BY <2>2, <2>5, <2>6, WorthOfCounted DEF y
<1> QED  BY <1>4, <1>11, <1>12, <1>13

\* The rules that are left for units without flags.
LEMMA ViaUnflagged ==
  ASSUME NEW u \in Unflagged, NEW v \in Unflagged, NEW x \in Finite, NEW a, NEW b
  PROVE  ConvertVia(x, u, v, a, b) =
           IF u = v THEN x
           ELSE IF has_same_base(u.base, v.base) THEN Scaled(x, u, v)
           ELSE IF /\ equivalent_non_counting(u.base, v.base)
                   /\ IsNumber(convertCountingUnits(x, u, v))
           THEN convertCountingUnits(x, u, v)
           ELSE IF Inverts(u, v)
           THEN 1 // ((x ** u.multiplier) ** v.multiplier)
           ELSE otherUsefulConversions(x, u, v, a, b)
<1>1. /\ ~per_unit(u) /\ ~e_flag(u) /\ ~equation(u) /\ ~is_default(u)
      /\ ~per_unit(v) /\ ~e_flag(v) /\ ~equation(v) /\ ~is_default(v)
  BY UnflaggedFacts
<1>2. u.base = v.base => has_same_base(u.base, v.base)
  BY DEF has_same_base
<1>3. ConvertVia(x, u, v, a, b) =
        IF u = v THEN x
        ELSE IF u.base = v.base THEN Scaled(x, u, v)
        ELSE ConvertDistinct(x, u, v, a, b)
  BY <1>1 DEF ConvertVia
<1>4. ConvertDistinct(x, u, v, a, b) =
        IF has_same_base(u.base, v.base) THEN Scaled(x, u, v)
        ELSE IF /\ equivalent_non_counting(u.base, v.base)
                /\ IsNumber(convertCountingUnits(x, u, v))
        THEN convertCountingUnits(x, u, v)
        ELSE IF Inverts(u, v)
        THEN 1 // ((x ** u.multiplier) ** v.multiplier)
        ELSE otherUsefulConversions(x, u, v, a, b)
  <2>1. /\ per_unit(u) = FALSE /\ per_unit(v) = FALSE
        /\ e_flag(u) = FALSE /\ e_flag(v) = FALSE
    BY <1>1 DEF per_unit, e_flag
  <2> QED  BY <2>1 DEF ConvertDistinct
<1> QED  BY <1>2, <1>3, <1>4

\* The kilogram and the kilometer that a kilo is taken for.
LEMMA KilosUnflagged ==
  /\ kg \in Unflagged /\ km \in Unflagged
  /\ \A x \in Finite : Worth(x, kg) = x /\ Worth(x, km) = x ** 1000
<1>1. \A b \in Base : kg.base.exp[b] \in {0, 1} /\ km.base.exp[b] \in {0, 1}
  BY DEF kg, km, unit, dim
<1>2. \A b \in Base : MinVal(b) <= 0 /\ 1 <= MaxVal(b)
  <2> TAKE b \in Base
  <2>1. Half[b] \in {2, 4, 8, 32, 128}
    BY HalfAssumption
  <2> QED  BY <2>1 DEF MinVal, MaxVal
<1>3. InFields(kg.base) /\ InFields(km.base)
  <2> SUFFICES ASSUME NEW b \in Base, NEW e \in {0, 1}
               PROVE  MinVal(b) <= e /\ e <= MaxVal(b)
    BY <1>1 DEF InFields
  <2>1. Half[b] \in {2, 4, 8, 32, 128}
    BY HalfAssumption
  <2> QED  BY <2>1 DEF MinVal, MaxVal
<1>4. /\ kg.base.flags = {} /\ km.base.flags = {} /\ kg.multiplier = 1 /\ km.multiplier = 1000
  BY PlainNumbers
<1>5. 1 \in NonZero /\ 1 \in Finite
  BY Digits
<1>6. 1000 \in NonZero /\ 1000 \in Finite
  BY SmallLiteral
<1>7. kg \in [multiplier : NonZero, base : UnitDataType]
      /\ km \in [multiplier : NonZero, base : UnitDataType]
  BY <1>4, <1>5, <1>6, NamedUnits DEF UnitType
<1>8. kg \in Unflagged /\ km \in Unflagged
  BY <1>3, <1>4, <1>7 DEF Unflagged, Undoable, equation
<1>9. \A p, f : \A b \in Base : dim(p, f).exp[b] = IF b \in DOMAIN p THEN p[b] ELSE 0
  BY DEF dim
<1>10. {"radian", "mole"} \subseteq Base
  BY BaseAssumption
<1>11. /\ kg.base.exp["radian"] = 0 /\ kg.base.exp["mole"] = 0
       /\ km.base.exp["radian"] = 0 /\ km.base.exp["mole"] = 0
  BY <1>9, <1>10 DEF kg, km, unit
<1>12. CountedAs(kg) = 1
  BY <1>11, CountedFacts
<1>13. CountedAs(km) = 1
  BY <1>11, CountedFacts
<1>14. \A x \in Finite : x ** 1 = x /\ x ** 1000 \in Finite
  BY <1>5, <1>6, ProductLaws, QuotientLaws
<1> QED  BY <1>4, <1>8, <1>12, <1>13, <1>14 DEF Worth

\* Between units of one dimension a value keeps its worth.
LEMMA SameBaseWorth ==
  ASSUME NEW u \in Unflagged, NEW v \in Unflagged, NEW x \in Finite, NEW a, NEW b,
         has_same_base(u.base, v.base)
  PROVE  Worth(ConvertVia(x, u, v, a, b), v) = Worth(x, u)
<1>1. ConvertVia(x, u, v, a, b) = IF u = v THEN x ELSE Scaled(x, u, v)
  BY ViaUnflagged
<1>2. CountedAs(u) = CountedAs(v)
  BY DEF CountedAs, has_same_base
<1>3. u \in Undoable /\ v \in Undoable
  BY UnflaggedFacts
<1> QED  BY <1>1, <1>2, <1>3, WorthOfScaled

\* What one conversion between units without flags makes of a worth.
StepOf(x, u, y, v) ==
  \/ equivalent_non_counting(u.base, v.base) /\ Worth(y, v) = Worth(x, u)
  \/ /\ Inverts(u, v) /\ ~has_same_base(u.base, v.base)
     /\ ~CountsThings(u) /\ ~CountsThings(v) => Worth(y, v) ** Worth(x, u) = 1
  \/ WeightToMass(v, u) /\ Worth(y, v) = Worth(x, u) ** standard_gravity
  \/ WeightToMass(u, v) /\ Worth(y, v) ** standard_gravity = Worth(x, u)
  \/ u = kilo /\ \E r \in {kg, km} : /\ has_same_base(v.base, r.base)
                                     /\ Worth(y, v) = x ** r.multiplier

\* Inverses of values that count nothing are inverses in worth.
LEMMA InverseWorth ==
  ASSUME NEW u \in Undoable, NEW v \in Undoable, NEW x \in Finite,
         ~CountsThings(u), ~CountsThings(v),
         1 // ((x ** u.multiplier) ** v.multiplier) \in Finite
  PROVE  Worth(1 // ((x ** u.multiplier) ** v.multiplier), v) ** Worth(x, u) = 1
<1> DEFINE p == x ** u.multiplier
           n == v.multiplier
           y == 1 // (p ** n)
<1>1. u.multiplier \in NonZero /\ n \in NonZero /\ n \in Finite /\ 1 \in Finite
  BY UndoableFacts, Digits
<1>2. p \in Finite /\ p ** n \in Finite
  BY <1>1, QuotientLaws
<1>3. {"radian", "mole"} \subseteq Counting /\ {"radian", "mole"} \subseteq Base
  BY BaseAssumption DEF Counting
<1>4. /\ u.base.exp["radian"] = 0 /\ u.base.exp["mole"] = 0
      /\ v.base.exp["radian"] = 0 /\ v.base.exp["mole"] = 0
  BY <1>3 DEF CountsThings
<1>5. \A b \in Base : u.base.exp[b] \in Int /\ v.base.exp[b] \in Int
  BY UndoableFacts
<1>6. CountedAs(u) = 1
  BY <1>3, <1>4, <1>5, CountedFacts
<1>7. CountedAs(v) = 1
  BY <1>3, <1>4, <1>5, CountedFacts
<1> HIDE DEF p, n
<1>8. p ** n \in NonZero
  <2>1. p ** n = 0 => 1 // (p ** n) = NaN
    BY <1>1, <1>2, OnResidues
  <2>2. NaN \notin Finite
    BY PrimeFacts
  <2> QED  BY <1>2, <2>1, <2>2, Digits DEF p, n
<1>9. y \in Finite /\ y ** (p ** n) = 1
  BY <1>1, <1>8, ReciprocalLaws
<1> HIDE DEF y
<1>10. y ** n \in Finite
  BY <1>1, <1>9, QuotientLaws
<1>11. (y ** n) ** p = y ** (n ** p) /\ n ** p = p ** n
  BY <1>1, <1>2, <1>9, ProductLaws
<1>12. Worth(y, v) = y ** n /\ Worth(x, u) = p
  <2>1. (y ** n) ** 1 = y ** n /\ p ** 1 = p
    BY <1>1, <1>2, <1>10, ProductLaws
  <2> QED  BY <1>6, <1>7, <2>1 DEF Worth, p, n
<1> QED  BY <1>9, <1>11, <1>12 DEF y, p, n

\* A weight counts what its mass counts.
LEMMA WeightCounts ==
  ASSUME NEW u \in Undoable, NEW v \in Undoable, WeightToMass(u, v) \/ WeightToMass(v, u)
  PROVE  \A b \in Counting : u.base.exp[b] = v.base.exp[b]
<1> SUFFICES ASSUME NEW b \in Counting PROVE u.base.exp[b] = v.base.exp[b]
  OBVIOUS
<1>1. b \in Base /\ b # "meter" /\ b # "second"
  BY BaseAssumption DEF Counting
<1>2. Acceleration.exp[b] = 0
  <2>1. \A p, f : dim(p, f).exp[b] = IF b \in DOMAIN p THEN p[b] ELSE 0
    BY <1>1 DEF dim
  <2> QED  BY <1>1, <2>1 DEF Acceleration
<1>3. \A p \in Undoable, q \in Undoable : WeightToMass(p, q) => p.base.exp[b] = q.base.exp[b]
  <2> SUFFICES ASSUME NEW p \in Undoable, NEW q \in Undoable, WeightToMass(p, q)
               PROVE  p.base.exp[b] = q.base.exp[b]
    OBVIOUS
  <2> DEFINE i == p.base.exp[b]
             j == q.base.exp[b]
  <2>1. i \in Int /\ j \in Int /\ InFields(p.base) /\ InFields(q.base)
    BY <1>1, UndoableFacts
  <2>2. Wrap(b, i - j) = 0
    BY <1>1, <1>2 DEF WeightToMass, has_same_base, Divides, unit_data
  <2>3. MinVal(b) <= i /\ i <= MaxVal(b) /\ MinVal(b) <= j /\ j <= MaxVal(b)
    BY <1>1, <2>1 DEF InFields
  <2> HIDE DEF i, j
  <2>4. Wrap(b, Wrap(b, i - j) + j) = Wrap(b, (i - j) + j)
    BY <1>1, <2>1, WrapArithmetic
  <2>5. (i - j) + j = i /\ 0 + j = j
    BY <2>1
  <2>6. Wrap(b, j) = j /\ Wrap(b, i) = i
    BY <1>1, <2>1, <2>3, WrapFits
  <2> QED  BY <2>2, <2>4, <2>5, <2>6 DEF i, j
<1> QED  BY <1>3

\* Every conversion is one of these steps.
LEMMA Classified ==
  ASSUME NEW u \in Unflagged, NEW v \in Unflagged, NEW x \in Finite,
         convert(x, u, v) # NaN
  PROVE  convert(x, u, v) \in Finite /\ StepOf(x, u, convert(x, u, v), v)
<1> DEFINE a == ConvertVia(x, kg, v, NaN, NaN)
           b == ConvertVia(x, km, v, NaN, NaN)
           y == convert(x, u, v)
           g == standard_gravity
<1>1. y = ConvertVia(x, u, v, a, b)
  BY DEF convert
<1>2. u \in Undoable /\ v \in Undoable
  BY UnflaggedFacts
<1>3. y \in Finite
  <2>1. u \in UnitType /\ v \in UnitType
    BY <1>2, UndoableTyped
  <2>2. x \in Number
    BY NumberCases
  <2>3. y \in Number
    BY <2>1, <2>2, ConvertTyped
  <2>4. y # NaN
    OBVIOUS
  <2> HIDE DEF y
  <2> QED  BY <2>3, <2>4, NumberCases DEF IsNumber
<1>4. /\ has_same_base(v.base, kg.base) => Worth(a, v) = x
      /\ has_same_base(v.base, km.base) => Worth(b, v) = x ** 1000
  <2>1. has_same_base(v.base, kg.base) => has_same_base(kg.base, v.base)
    BY DEF has_same_base
  <2>2. has_same_base(v.base, km.base) => has_same_base(km.base, v.base)
    BY DEF has_same_base
  <2>3. has_same_base(v.base, kg.base) => Worth(a, v) = Worth(x, kg)
    BY <2>1, KilosUnflagged, SameBaseWorth
  <2>4. has_same_base(v.base, km.base) => Worth(b, v) = Worth(x, km)
    BY <2>2, KilosUnflagged, SameBaseWorth
  <2> QED  BY <2>3, <2>4, KilosUnflagged
<1>5. /\ x ** 1 = x /\ kg.multiplier = 1 /\ km.multiplier = 1000
  BY PlainNumbers, Digits, ProductLaws
<1>6. g \in NonZero
  BY LiteralFacts
<1> HIDE DEF a, b, y, g
<1>7. CASE has_same_base(u.base, v.base)
  <2>1. Worth(y, v) = Worth(x, u)
    BY <1>1, <1>7, SameBaseWorth
  <2>2. equivalent_non_counting(u.base, v.base)
    BY <1>7 DEF has_same_base, equivalent_non_counting
  <2> QED  BY <1>3, <2>1, <2>2 DEF StepOf, y
<1>8. CASE /\ ~has_same_base(u.base, v.base)
           /\ equivalent_non_counting(u.base, v.base)
           /\ IsNumber(convertCountingUnits(x, u, v))
  <2>1. u # v
    BY <1>8 DEF has_same_base
  <2>2. y = convertCountingUnits(x, u, v) /\ y # NaN
    BY <1>1, <1>8, <2>1, ViaUnflagged DEF IsNumber
  <2>3. Worth(y, v) = Worth(x, u)
    BY <1>2, <2>2, WorthOfThings
  <2> QED  BY <1>3, <1>8, <2>3 DEF StepOf, y
<1>9. CASE /\ ~has_same_base(u.base, v.base)
           /\ ~(/\ equivalent_non_counting(u.base, v.base)
                /\ IsNumber(convertCountingUnits(x, u, v)))
           /\ Inverts(u, v)
  <2>1. u # v
    BY <1>9 DEF has_same_base
  <2>2. y = 1 // ((x ** u.multiplier) ** v.multiplier)
    BY <1>1, <1>9, <2>1, ViaUnflagged
  <2>3. ~CountsThings(u) /\ ~CountsThings(v) => Worth(y, v) ** Worth(x, u) = 1
    BY <1>2, <1>3, <2>2, InverseWorth
  <2> QED  BY <1>3, <1>9, <2>3 DEF StepOf, y
<1>10. CASE /\ ~has_same_base(u.base, v.base)
            /\ ~(/\ equivalent_non_counting(u.base, v.base)
                 /\ IsNumber(convertCountingUnits(x, u, v)))
            /\ ~Inverts(u, v)
  <2>1. u # v
    BY <1>10 DEF has_same_base
  <2>2. y = otherUsefulConversions(x, u, v, a, b)
    BY <1>1, <1>10, <2>1, ViaUnflagged
  <2>3. y # NaN
    BY <1>3, PrimeFacts
  <2>4. \/ WeightToMass(u, v) /\ y = Scaled(x // g, u, v)
        \/ WeightToMass(v, u) /\ y = Scaled(x ** g, u, v)
        \/ u = kilo /\ has_same_base(v.base, kg.base) /\ y = a
        \/ u = kilo /\ has_same_base(v.base, km.base) /\ y = b
    BY <2>2, <2>3 DEF otherUsefulConversions, g
  <2>5. WeightToMass(u, v) \/ WeightToMass(v, u) =>
          /\ u.base.exp["radian"] = v.base.exp["radian"]
          /\ u.base.exp["mole"] = v.base.exp["mole"]
    BY <1>2, WeightCounts DEF Counting
  <2>6. WeightToMass(u, v) \/ WeightToMass(v, u) => CountedAs(u) = CountedAs(v)
    BY <2>5 DEF CountedAs
  <2>7. CASE WeightToMass(u, v) /\ y = Scaled(x // g, u, v)
    <3>1. x // g \in Finite
      BY <1>6, QuotientLaws
    <3>2. Worth(y, v) = Worth(x // g, u)
      BY <1>2, <2>6, <2>7, <3>1, WorthOfScaled
    <3>3. Worth(x // g, u) ** g = Worth(x, u)
      BY <1>2, <1>6, WorthOfProduct
    <3> QED  BY <1>3, <2>7, <3>2, <3>3 DEF StepOf, y, g
  <2>8. CASE WeightToMass(v, u) /\ y = Scaled(x ** g, u, v)
    <3>1. x ** g \in Finite
      BY <1>6, QuotientLaws
    <3>2. Worth(y, v) = Worth(x ** g, u)
      BY <1>2, <2>6, <2>8, <3>1, WorthOfScaled
    <3>3. Worth(x ** g, u) = Worth(x, u) ** g
      BY <1>2, <1>6, WorthOfProduct
    <3> QED  BY <1>3, <2>8, <3>2, <3>3 DEF StepOf, y, g
  <2>9. CASE u = kilo /\ has_same_base(v.base, kg.base) /\ y = a
    <3>1. Worth(y, v) = x ** kg.multiplier
      BY <1>4, <1>5, <2>9
    <3> QED  BY <1>3, <2>9, <3>1 DEF StepOf, y
  <2>10. CASE u = kilo /\ has_same_base(v.base, km.base) /\ y = b
    <3>1. Worth(y, v) = x ** km.multiplier
      BY <1>4, <1>5, <2>10
    <3> QED  BY <1>3, <2>10, <3>1 DEF StepOf, y
  <2> QED  BY <2>4, <2>7, <2>8, <2>9, <2>10
<1> QED  BY <1>7, <1>8, <1>9, <1>10

(***************************************************************************)
(* Dimensions without the things counted, and what inverses and powers of  *)
(* an acceleration make of them.                                           *)
(***************************************************************************)
Kinds == Base \ Counting
KindType == {e \in [Kinds -> Int] :
               \A b \in Kinds : MinVal(b) <= e[b] /\ e[b] <= MaxVal(b)}

Kind(u) == [b \in Kinds |-> u.base.exp[b]]

Accelerated(b, k) == IF b = "meter" THEN k ELSE IF b = "second" THEN 0 - (k + k) ELSE 0

Raised(e, k) == [b \in Kinds |-> Wrap(b, e[b] + Accelerated(b, k))]
Opposed(e, k) == [b \in Kinds |-> Wrap(b, Accelerated(b, k) - e[b])]

\* Meters and seconds are no things counted.
LEMMA KindsOfLength ==
  /\ "meter" \in Kinds /\ "second" \in Kinds /\ "kilogram" \in Kinds
  /\ \A b \in Kinds : b \in Base
BY BaseAssumption DEF Kinds, Counting

\* The powers of an acceleration add up.
LEMMA AcceleratedSum ==
  ASSUME NEW b, NEW k \in Int, NEW i \in Int
  PROVE  /\ Accelerated(b, k) \in Int
         /\ Accelerated(b, k) + Accelerated(b, i) = Accelerated(b, k + i)
         /\ Accelerated(b, i) - Accelerated(b, k) = Accelerated(b, i - k)
         /\ Accelerated(b, 0) = 0
<1>1. CASE b = "meter"
  BY <1>1 DEF Accelerated
<1>2. CASE b = "second"
  BY <1>2 DEF Accelerated
<1>3. CASE b # "meter" /\ b # "second"
  BY <1>3 DEF Accelerated
<1> QED  BY <1>1, <1>2, <1>3

\* Every such dimension fits its fields.
LEMMA KindTyped ==
  /\ \A u \in Unflagged : Kind(u) \in KindType
  /\ \A e \in KindType, k \in Int : Raised(e, k) \in KindType /\ Opposed(e, k) \in KindType
  /\ \A e \in KindType : e \in [Kinds -> Int] /\ Raised(e, 0) = e
<1>1. ASSUME NEW u \in Unflagged PROVE Kind(u) \in KindType
  <2>1. \A b \in Base : u.base.exp[b] \in Int /\ InFields(u.base)
    BY UnflaggedFacts, UndoableFacts
  <2> QED  BY <2>1, KindsOfLength DEF Kind, KindType, InFields
<1>2. ASSUME NEW e \in KindType, NEW k \in Int
      PROVE  Raised(e, k) \in KindType /\ Opposed(e, k) \in KindType
  <2> SUFFICES ASSUME NEW b \in Kinds
               PROVE  /\ Wrap(b, e[b] + Accelerated(b, k)) \in Int
                      /\ MinVal(b) <= Wrap(b, e[b] + Accelerated(b, k))
                      /\ Wrap(b, e[b] + Accelerated(b, k)) <= MaxVal(b)
                      /\ Wrap(b, Accelerated(b, k) - e[b]) \in Int
                      /\ MinVal(b) <= Wrap(b, Accelerated(b, k) - e[b])
                      /\ Wrap(b, Accelerated(b, k) - e[b]) <= MaxVal(b)
    BY DEF Raised, Opposed, KindType
  <2>1. b \in Base /\ e[b] \in Int /\ Accelerated(b, k) \in Int
    BY KindsOfLength, AcceleratedSum DEF KindType
  <2>2. e[b] + Accelerated(b, k) \in Int /\ Accelerated(b, k) - e[b] \in Int
    BY <2>1
  <2> QED  BY <2>1, <2>2, WrapRange
<1>3. ASSUME NEW e \in KindType PROVE e \in [Kinds -> Int] /\ Raised(e, 0) = e
  <2>1. e \in [Kinds -> Int]
    BY DEF KindType
  <2>2. ASSUME NEW b \in Kinds PROVE Wrap(b, e[b] + Accelerated(b, 0)) = e[b]
    <3>1. b \in Base /\ e[b] \in Int /\ MinVal(b) <= e[b] /\ e[b] <= MaxVal(b)
      BY KindsOfLength DEF KindType
    <3>2. e[b] + Accelerated(b, 0) = e[b]
      BY <3>1 DEF Accelerated
    <3> QED  BY <3>1, <3>2, WrapFits
  <2> QED  BY <2>1, <2>2 DEF Raised
<1> QED  BY <1>1, <1>2, <1>3

\* Powers of an acceleration, and inverses, one after the other.
LEMMA Compositions ==
  ASSUME NEW e \in KindType, NEW k \in Int, NEW i \in Int
  PROVE  /\ Raised(Raised(e, k), i) = Raised(e, k + i)
         /\ Raised(Opposed(e, k), i) = Opposed(e, k + i)
         /\ Opposed(Raised(e, k), i) = Opposed(e, i - k)
         /\ Opposed(Opposed(e, k), i) = Raised(e, i - k)
<1>1. ASSUME NEW b \in Kinds
      PROVE  /\ Wrap(b, Wrap(b, e[b] + Accelerated(b, k)) + Accelerated(b, i))
                  = Wrap(b, e[b] + Accelerated(b, k + i))
             /\ Wrap(b, Wrap(b, Accelerated(b, k) - e[b]) + Accelerated(b, i))
                  = Wrap(b, Accelerated(b, k + i) - e[b])
             /\ Wrap(b, Accelerated(b, i) - Wrap(b, e[b] + Accelerated(b, k)))
                  = Wrap(b, Accelerated(b, i - k) - e[b])
             /\ Wrap(b, Accelerated(b, i) - Wrap(b, Accelerated(b, k) - e[b]))
                  = Wrap(b, e[b] + Accelerated(b, i - k))
  <2> DEFINE x == e[b]
             p == Accelerated(b, k)
             q == Accelerated(b, i)
  <2>1. b \in Base /\ x \in Int /\ p \in Int /\ q \in Int
    BY KindsOfLength, AcceleratedSum DEF KindType
  <2>2. p + q = Accelerated(b, k + i) /\ q - p = Accelerated(b, i - k)
    BY AcceleratedSum
  <2> HIDE DEF x, p, q
  <2>3. ASSUME NEW y \in Int
        PROVE  /\ Wrap(b, Wrap(b, y) + q) = Wrap(b, y + q)
               /\ Wrap(b, q - Wrap(b, y)) = Wrap(b, q - y)
    <3> DEFINE z == Wrap(b, y)
    <3>1. Wrap(b, z + q) = Wrap(b, y + q)
      BY <2>1, WrapArithmetic
    <3>2. Wrap(b, -z) = Wrap(b, -y)
      BY <2>1, WrapArithmetic
    <3>3. z \in Int
      BY <2>1, WrapRange
    <3> HIDE DEF z
    <3>4. -z \in Int /\ -y \in Int /\ -z + q = q - z /\ -y + q = q - y
      BY <2>1, <3>3
    <3>5. Wrap(b, Wrap(b, -z) + q) = Wrap(b, -z + q)
      BY <2>1, <3>4, WrapArithmetic
    <3>6. Wrap(b, Wrap(b, -y) + q) = Wrap(b, -y + q)
      BY <2>1, <3>4, WrapArithmetic
    <3> QED  BY <3>1, <3>2, <3>4, <3>5, <3>6 DEF z
  <2>4. /\ x + p \in Int /\ p - x \in Int
        /\ (x + p) + q = x + (p + q) /\ (p - x) + q = (p + q) - x
        /\ q - (x + p) = (q - p) - x /\ q - (p - x) = x + (q - p)
    BY <2>1
  <2> QED  BY <2>2, <2>3, <2>4 DEF x, p, q
<1>2. \A b \in Kinds : /\ Raised(e, k)[b] = Wrap(b, e[b] + Accelerated(b, k))
                       /\ Opposed(e, k)[b] = Wrap(b, Accelerated(b, k) - e[b])
  BY DEF Raised, Opposed
<1> QED  BY <1>1, <1>2 DEF Raised, Opposed

\* A field tells numbers that are less than four apart.
LEMMA WrapTells ==
  ASSUME NEW b \in Base, NEW x \in Int, NEW y \in Int, x - y \in -3..3,
         Wrap(b, x) = Wrap(b, y)
  PROVE  x = y
<1>1. Half[b] \in {2, 4, 8, 32, 128}
  BY HalfAssumption
<1>2. CASE Half[b] = 2    BY <1>2 DEF Wrap
<1>3. CASE Half[b] = 4    BY <1>3 DEF Wrap
<1>4. CASE Half[b] = 8    BY <1>4 DEF Wrap
<1>5. CASE Half[b] = 32   BY <1>5 DEF Wrap
<1>6. CASE Half[b] = 128  BY <1>6 DEF Wrap
<1> QED  BY <1>1, <1>2, <1>3, <1>4, <1>5, <1>6

\* A field keeps what a number leaves when it is divided by two, or by four.
LEMMA WrapParity ==
  ASSUME NEW b \in Base, NEW x \in Int
  PROVE  Wrap(b, x) % 4 = x % 4
<1>1. Half[b] \in {2, 4, 8, 32, 128}
  BY HalfAssumption
<1>2. CASE Half[b] = 2    BY <1>2 DEF Wrap
<1>3. CASE Half[b] = 4    BY <1>3 DEF Wrap
<1>4. CASE Half[b] = 8    BY <1>4 DEF Wrap
<1>5. CASE Half[b] = 32   BY <1>5 DEF Wrap
<1>6. CASE Half[b] = 128  BY <1>6 DEF Wrap
<1> QED  BY <1>1, <1>2, <1>3, <1>4, <1>5, <1>6

\* Different small powers of an acceleration make different dimensions.
LEMMA DistinctPowers ==
  ASSUME NEW e \in KindType, NEW k \in Int, NEW j \in Int, k - j \in -3..3
  PROVE  /\ Raised(e, k) = Raised(e, j) => k = j
         /\ Opposed(e, k) = Opposed(e, j) => k = j
<1> DEFINE m == e["meter"]
<1>1. "meter" \in Base /\ "meter" \in Kinds /\ m \in Int
  BY KindsOfLength DEF KindType
<1>2. /\ Raised(e, k)["meter"] = Wrap("meter", m + k)
      /\ Raised(e, j)["meter"] = Wrap("meter", m + j)
      /\ Opposed(e, k)["meter"] = Wrap("meter", k - m)
      /\ Opposed(e, j)["meter"] = Wrap("meter", j - m)
  BY <1>1 DEF Raised, Opposed, Accelerated
<1> HIDE DEF m
<1>3. /\ m + k \in Int /\ m + j \in Int /\ k - m \in Int /\ j - m \in Int
      /\ (m + k) - (m + j) \in -3..3 /\ (k - m) - (j - m) \in -3..3
  BY <1>1
<1>4. Raised(e, k) = Raised(e, j) => m + k = m + j
  BY <1>1, <1>2, <1>3, WrapTells
<1>5. Opposed(e, k) = Opposed(e, j) => k - m = j - m
  BY <1>1, <1>2, <1>3, WrapTells
<1> QED  BY <1>1, <1>4, <1>5

\* Where the powers of a dimension meet those of its inverse, they are an
\* even number apart, and meet everywhere.
LEMMA Meeting ==
  ASSUME NEW e \in KindType, NEW k \in Int, NEW j \in Int,
         Raised(e, k) = Opposed(e, j)
  PROVE  /\ \A i \in Int : Raised(e, k + i) = Opposed(e, j + i)
         /\ (k - j) % 2 = 0
<1>1. \A i \in Int : Raised(e, k + i) = Opposed(e, j + i)
  BY Compositions
<1> DEFINE m == e["meter"]
<1>2. "meter" \in Base /\ "meter" \in Kinds /\ m \in Int
  BY KindsOfLength DEF KindType
<1>3. Wrap("meter", m + k) = Wrap("meter", j - m)
  BY <1>2 DEF Raised, Opposed, Accelerated
<1> HIDE DEF m
<1>4. m + k \in Int /\ j - m \in Int
  BY <1>2
<1>5. (m + k) % 4 = (j - m) % 4
  BY <1>2, <1>3, <1>4, WrapParity
<1>6. (k - j) % 2 = 0
  BY <1>2, <1>5
<1> QED  BY <1>1, <1>6

(***************************************************************************)
(* The way a chain of conversions may take.                                *)
(***************************************************************************)
Gravity(k) == IntegerPower(standard_gravity, k)

\* Units visited: a weight and its mass, and units that count nothing.
Weighed(units, f) == \E u, v \in units : WeightToMass(u, v) /\ Kind(v) = f
PlainAt(units, f) == \E u \in units : ~CountsThings(u) /\ Kind(u) = f

\* What a step makes of a worth of a dimension.
Leads(units, f, w, h, z) ==
  \/ h = f /\ z = w
  \/ h = Opposed(f, 0) /\ h # f /\ PlainAt(units, f) /\ PlainAt(units, h) /\ z ** w = 1
  \/ h = Raised(f, 1) /\ Weighed(units, f) /\ z = w ** standard_gravity
  \/ h = Raised(f, -1) /\ Weighed(units, h) /\ z ** standard_gravity = w

\* Since a worth of p in the dimension e at most one weight was taken.
OnPower(units, e, p, f, w) ==
  \E k \in -1..1 : /\ f = Raised(e, k) /\ w = p ** Gravity(k)
                   /\ k = 1 => Weighed(units, Raised(e, 0))
                   /\ k = -1 => Weighed(units, Raised(e, -1))

\* Since then it became an inverse, at the power a of the acceleration.
OnInverse(units, e, p, f, w) ==
  \E a \in -1..1, j \in -2..2 :
    /\ j - a \in -1..1
    /\ f = Opposed(e, j) /\ w ** p = Gravity(j)
    /\ Raised(e, 0 - a) # Opposed(e, a)
    /\ PlainAt(units, Raised(e, 0 - a)) /\ PlainAt(units, Opposed(e, a))
    /\ a = -1 => Weighed(units, Raised(e, 0))
    /\ a = 1 => Weighed(units, Raised(e, -1))
    /\ j = a + 1 => Weighed(units, Opposed(e, a))
    /\ j = a - 1 => Weighed(units, Opposed(e, a - 1))

OnWay(units, e, p, f, w) == OnPower(units, e, p, f, w) \/ OnInverse(units, e, p, f, w)

\* The rules in terms of dimensions.
LEMMA RulesOfKinds ==
  ASSUME NEW u \in Unflagged, NEW v \in Unflagged
  PROVE  /\ equivalent_non_counting(u.base, v.base) <=> Kind(u) = Kind(v)
         /\ has_same_base(u.base, v.base) => Kind(u) = Kind(v)
         /\ Inverts(u, v) => Kind(v) = Opposed(Kind(u), 0)
         /\ WeightToMass(u, v) => Kind(u) = Raised(Kind(v), 1)
         /\ ~CountsThings(u) /\ ~CountsThings(v) /\ Kind(u) = Kind(v)
              => has_same_base(u.base, v.base)
         /\ ~CountsThings(u) /\ ~CountsThings(v) /\ Kind(u) = Raised(Kind(v), 1)
              => WeightToMass(u, v)
<1> DEFINE x == u.base.exp
           y == v.base.exp
<1>1. /\ u \in Undoable /\ v \in Undoable
      /\ x \in [Base -> Int] /\ y \in [Base -> Int]
      /\ \A b \in Base : /\ MinVal(b) <= x[b] /\ x[b] <= MaxVal(b)
                         /\ MinVal(b) <= y[b] /\ y[b] <= MaxVal(b)
  BY UnflaggedFacts, UndoableFacts DEF InFields
<1>2. \A b \in Kinds : Kind(u)[b] = x[b] /\ Kind(v)[b] = y[b]
  BY DEF Kind
<1>3. \A b \in Base : x[b] \in Int /\ y[b] \in Int /\ Wrap(b, x[b]) = x[b] /\ Wrap(b, y[b]) = y[b]
  <2> TAKE b \in Base
  <2>1. x[b] \in Int /\ y[b] \in Int
    BY <1>1
  <2> QED  BY <1>1, <2>1, WrapFits
<1> HIDE DEF x, y
<1>4. equivalent_non_counting(u.base, v.base) <=> Kind(u) = Kind(v)
  BY DEF equivalent_non_counting, Kind, Kinds
<1>5. has_same_base(u.base, v.base) => Kind(u) = Kind(v)
  BY DEF has_same_base, Kind
<1>6. ASSUME Inverts(u, v) PROVE Kind(v) = Opposed(Kind(u), 0)
  <2>1. Inverts(v, u)
    BY <1>1, <1>6, InvertsBothWays
  <2>2. \A b \in Base : y[b] = Wrap(b, -x[b])
    BY <2>1 DEF Inverts, has_same_base, Inv, unit_data, x, y
  <2>3. ASSUME NEW b \in Kinds PROVE y[b] = Wrap(b, Accelerated(b, 0) - Kind(u)[b])
    <3>1. b \in Base /\ x[b] \in Int
      BY <1>3, KindsOfLength
    <3>2. Accelerated(b, 0) - Kind(u)[b] = -x[b]
      BY <1>2, <3>1, AcceleratedSum
    <3> QED  BY <2>2, <3>1, <3>2
  <2> QED  BY <2>3 DEF Opposed, Kind, y
<1>7. \A b \in Base : Divides(u.base, v.base).exp[b] = Wrap(b, x[b] - y[b])
  BY DEF Divides, unit_data, x, y
<1>8. \A b \in Kinds : b \in Base /\ Acceleration.exp[b] = Accelerated(b, 1)
  <2> TAKE b \in Kinds
  <2>1. b \in Base
    BY KindsOfLength
  <2>2. \A p, f : dim(p, f).exp[b] = IF b \in DOMAIN p THEN p[b] ELSE 0
    BY <2>1 DEF dim
  <2>3. 0 - (1 + 1) = -2
    OBVIOUS
  <2> QED  BY <2>1, <2>2, <2>3 DEF Acceleration, Accelerated
<1>9. ASSUME WeightToMass(u, v) PROVE Kind(u) = Raised(Kind(v), 1)
  <2>1. ASSUME NEW b \in Kinds PROVE x[b] = Wrap(b, Kind(v)[b] + Accelerated(b, 1))
    <3> DEFINE c == Accelerated(b, 1)
               i == x[b]
               j == y[b]
    <3>1. b \in Base /\ i \in Int /\ j \in Int /\ c \in Int /\ Kind(v)[b] = j /\ Wrap(b, i) = i
      BY <1>2, <1>3, KindsOfLength, AcceleratedSum
    <3>2. Wrap(b, i - j) = c
      BY <1>7, <1>8, <1>9 DEF WeightToMass, has_same_base
    <3> HIDE DEF c, i, j
    <3>3. i - j \in Int /\ (i - j) + j = i /\ c + j = j + c
      BY <3>1
    <3>4. Wrap(b, Wrap(b, i - j) + j) = Wrap(b, (i - j) + j)
      BY <3>1, <3>3, WrapArithmetic
    <3> QED  BY <3>1, <3>2, <3>3, <3>4 DEF c, i, j
  <2> QED  BY <2>1 DEF Raised, Kind, x
<1>10. ASSUME ~CountsThings(u), ~CountsThings(v)
       PROVE  \A b \in Counting : b \in Base /\ x[b] = 0 /\ y[b] = 0
  BY <1>10, BaseAssumption DEF CountsThings, Counting, x, y
<1>11. ASSUME ~CountsThings(u), ~CountsThings(v), Kind(u) = Kind(v)
       PROVE  has_same_base(u.base, v.base)
  <2>1. \A b \in Base : x[b] = y[b]
    BY <1>2, <1>10, <1>11 DEF Kinds
  <2> QED  BY <1>1, <2>1 DEF has_same_base, x, y
<1>12. ASSUME ~CountsThings(u), ~CountsThings(v), Kind(u) = Raised(Kind(v), 1)
       PROVE  WeightToMass(u, v)
  <2>1. ASSUME NEW b \in Kinds PROVE Wrap(b, x[b] - y[b]) = Acceleration.exp[b]
    <3> DEFINE c == Accelerated(b, 1)
               j == y[b]
    <3>1. b \in Base /\ j \in Int /\ c \in Int /\ Kind(v)[b] = j
      BY <1>2, <1>3, KindsOfLength, AcceleratedSum
    <3>2. x[b] = Wrap(b, j + c)
      BY <1>2, <1>12, <3>1 DEF Raised
    <3>3. Wrap(b, c) = c
      <4>1. Half[b] \in {2, 4, 8, 32, 128}
        BY <3>1, HalfAssumption
      <4>2. MinVal(b) <= c /\ c <= MaxVal(b)
        BY <4>1 DEF MinVal, MaxVal, Accelerated
      <4> QED  BY <3>1, <4>2, WrapFits
    <3> HIDE DEF c, j
    <3>4. j + c \in Int /\ (j + c) - j = c
      BY <3>1
    <3>5. Wrap(b, Wrap(b, j + c) - j) = Wrap(b, (j + c) - j)
      BY <3>1, <3>4, WrapArithmetic
    <3> QED  BY <1>8, <3>2, <3>3, <3>4, <3>5 DEF c, j
  <2>2. ASSUME NEW b \in Counting PROVE Wrap(b, x[b] - y[b]) = Acceleration.exp[b]
    <3>1. b \in Base /\ b # "meter" /\ b # "second" /\ x[b] = 0 /\ y[b] = 0
      BY <1>10, <1>12 DEF Counting
    <3>2. \A p, f : dim(p, f).exp[b] = IF b \in DOMAIN p THEN p[b] ELSE 0
      BY <3>1 DEF dim
    <3>3. Acceleration.exp[b] = 0
      BY <3>1, <3>2 DEF Acceleration
    <3>4. Wrap(b, 0) = 0 /\ 0 - 0 = 0
      BY <1>3, <3>1
    <3> QED  BY <3>1, <3>3, <3>4
  <2>3. \A b \in Base : Divides(u.base, v.base).exp[b] = Acceleration.exp[b]
    BY <1>7, <2>1, <2>2 DEF Kinds
  <2>4. Divides(u.base, v.base).exp = Acceleration.exp
    BY <2>3 DEF Divides, unit_data, Acceleration, dim
  <2>5. x["kilogram"] = y["kilogram"]
    <3>1. "kilogram" \in Kinds /\ "kilogram" \in Base
      BY KindsOfLength
    <3>2. x["kilogram"] = Wrap("kilogram", y["kilogram"] + 0)
      BY <1>2, <1>12, <3>1 DEF Raised, Accelerated
    <3>3. y["kilogram"] + 0 = y["kilogram"]
      BY <1>3, <3>1
    <3> QED  BY <1>3, <3>1, <3>2, <3>3
  <2> QED  BY <2>4, <2>5 DEF WeightToMass, has_same_base, x, y
<1> QED  BY <1>4, <1>5, <1>6, <1>9, <1>11, <1>12

\* What the units visited show about each other, and what stays when more
\* are visited.
LEMMA MarksOfUnits ==
  ASSUME NEW units \in SUBSET Unflagged, NEW more \in SUBSET Unflagged, units \subseteq more,
         NEW f
  PROVE  /\ Weighed(units, f) => Weighed(more, f)
         /\ PlainAt(units, f) => PlainAt(more, f)
         /\ Weighed(units, f) /\ Weighed(units, Raised(f, 1)) => WeighsTwice(units)
         /\ PlainAt(units, f) /\ PlainAt(units, Raised(f, 1)) => Weighed(units, f)
<1>1. ASSUME Weighed(units, f), Weighed(units, Raised(f, 1)) PROVE WeighsTwice(units)
  <2>1. PICK u, v \in units : WeightToMass(u, v) /\ Kind(v) = Raised(f, 1)
    BY <1>1 DEF Weighed
  <2>2. PICK w, z \in units : WeightToMass(w, z) /\ Kind(z) = f
    BY <1>1 DEF Weighed
  <2>3. Kind(w) = Kind(v)
    BY <2>1, <2>2, RulesOfKinds
  <2>4. equivalent_non_counting(v.base, w.base)
    BY <2>3, RulesOfKinds
  <2> QED  BY <2>1, <2>2, <2>4 DEF WeighsTwice
<1>2. ASSUME PlainAt(units, f), PlainAt(units, Raised(f, 1)) PROVE Weighed(units, f)
  <2>1. PICK u \in units : ~CountsThings(u) /\ Kind(u) = Raised(f, 1)
    BY <1>2 DEF PlainAt
  <2>2. PICK v \in units : ~CountsThings(v) /\ Kind(v) = f
    BY <1>2 DEF PlainAt
  <2>3. WeightToMass(u, v)
    BY <2>1, <2>2, RulesOfKinds
  <2> QED  BY <2>2, <2>3 DEF Weighed
<1>3. Weighed(units, f) => Weighed(more, f)
  BY DEF Weighed
<1>4. PlainAt(units, f) => PlainAt(more, f)
  BY DEF PlainAt
<1> QED  BY <1>1, <1>2, <1>3, <1>4

\* Powers of gravity.
LEMMA GravityPowers ==
  /\ \A k \in -2..2 : /\ Gravity(k) \in NonZero /\ Gravity(k) \in Finite
                      /\ Gravity(k) ** Gravity(0 - k) = 1
  /\ \A k \in -2..1 : Gravity(k) ** standard_gravity = Gravity(k + 1)
  /\ Gravity(0) = 1 /\ Gravity(1) = standard_gravity
  /\ standard_gravity \in NonZero /\ standard_gravity \in Finite
<1> DEFINE g == standard_gravity
<1>1. g \in NonZero /\ g \in Finite /\ 1 \in Finite /\ 1 \in NonZero
  BY LiteralFacts, Digits
<1> HIDE DEF g
<1>2. ASSUME NEW k \in -2..2
      PROVE  /\ IntegerPower(g, k) \in NonZero
             /\ IntegerPower(g, k) ** IntegerPower(g, 0 - k) = 1
  <2>1. 0 - k = -k
    OBVIOUS
  <2> QED  BY <1>1, <2>1, OppositePowers
<1>3. /\ PowerMod[<<g, 0>>] = 1 /\ PowerMod[<<g, 1>>] = g
      /\ PowerMod[<<g, 2>>] = g ** g
  BY <1>1, SmallPowers, OnResidues
<1>4. /\ IntegerPower(g, 0) = 1 /\ IntegerPower(g, 1) = g /\ IntegerPower(g, 2) = g ** g
      /\ IntegerPower(g, -1) = 1 // g /\ IntegerPower(g, -2) = 1 // (g ** g)
  BY <1>3 DEF IntegerPower
<1>5. 1 ** g = g /\ g ** g \in NonZero /\ g ** g \in Finite /\ 1 // g \in Finite
  BY <1>1, ProductLaws, NonZeroClosure, ReciprocalLaws, Digits
<1>6. (1 // g) ** g = 1
  BY <1>1, ReciprocalLaws
<1>7. (1 // (g ** g)) ** g = 1 // g
  <2> DEFINE i == 1 // (g ** g)
  <2>1. i \in Finite /\ i ** (g ** g) = 1
    BY <1>1, <1>5, ReciprocalLaws
  <2> HIDE DEF i
  <2>2. (i ** g) ** g = 1 /\ i ** g \in Finite
    BY <1>1, <2>1, ProductLaws, QuotientLaws
  <2> QED  BY <1>1, <1>5, <1>6, <2>2, Cancel DEF i
<1>8. ASSUME NEW k \in -2..1 PROVE IntegerPower(g, k) ** g = IntegerPower(g, k + 1)
  <2>1. CASE k = -2
    <3>1. k + 1 = -1
      BY <2>1
    <3> QED  BY <1>4, <1>7, <2>1, <3>1
  <2>2. CASE k = -1
    <3>1. k + 1 = 0
      BY <2>2
    <3> QED  BY <1>4, <1>6, <2>2, <3>1
  <2>3. CASE k = 0
    <3>1. k + 1 = 1
      BY <2>3
    <3> QED  BY <1>4, <1>5, <2>3, <3>1
  <2>4. CASE k = 1
    <3>1. k + 1 = 2
      BY <2>4
    <3> QED  BY <1>4, <2>4, <3>1
  <2> QED  BY <2>1, <2>2, <2>3, <2>4
<1>9. \A k \in -2..2 : IntegerPower(g, k) \in Finite
  BY <1>2, Digits
<1> QED  BY <1>1, <1>2, <1>4, <1>8, <1>9 DEF Gravity, g

\* What the steps make of p times a power of gravity, and of its inverse.
LEMMA WorthSteps ==
  ASSUME NEW p \in Finite, NEW w \in Finite, NEW z \in Finite, NEW k \in -2..2
  PROVE  /\ k # 2 /\ w = p ** Gravity(k) /\ z = w ** standard_gravity
              => z = p ** Gravity(k + 1)
         /\ k # -2 /\ w = p ** Gravity(k) /\ z ** standard_gravity = w
              => z = p ** Gravity(k - 1)
         /\ k # 2 /\ w ** p = Gravity(k) /\ z = w ** standard_gravity
              => z ** p = Gravity(k + 1)
         /\ k # -2 /\ w ** p = Gravity(k) /\ z ** standard_gravity = w
              => z ** p = Gravity(k - 1)
         /\ w = p ** Gravity(k) /\ z ** w = 1 => z ** p = Gravity(0 - k)
         /\ w ** p = Gravity(k) /\ z ** w = 1 => z = p ** Gravity(0 - k)
<1> DEFINE g == standard_gravity
           G == Gravity(k)
           I == Gravity(0 - k)
<1>1. g \in NonZero /\ g \in Finite /\ G \in NonZero /\ G \in Finite
  BY GravityPowers
<1>2. I \in NonZero /\ I \in Finite /\ G ** I = 1
  <2>1. 0 - k \in -2..2
    OBVIOUS
  <2> QED  BY <2>1, GravityPowers
<1>3. k # 2 => G ** g = Gravity(k + 1)
  <2>1. k # 2 => k \in -2..1
    OBVIOUS
  <2> QED  BY <2>1, GravityPowers
<1>4. k # -2 => /\ Gravity(k - 1) ** g = G
                /\ Gravity(k - 1) \in Finite
  <2>1. k # -2 => k - 1 \in -2..1 /\ (k - 1) + 1 = k /\ k - 1 \in -2..2
    OBVIOUS
  <2> QED  BY <2>1, GravityPowers
<1> DEFINE H == Gravity(k - 1)
<1> HIDE DEF g, G, I, H
<1>5. ASSUME k # 2, w = p ** G, z = w ** g PROVE z = p ** Gravity(k + 1)
  <2>1. (p ** G) ** g = p ** (G ** g)
    BY <1>1, ProductLaws
  <2> QED  BY <1>3, <1>5, <2>1
<1>6. ASSUME k # -2, w = p ** G, z ** g = w PROVE z = p ** H
  <2>1. H \in Finite /\ H ** g = G
    BY <1>4, <1>6 DEF H
  <2>2. (p ** H) ** g = p ** (H ** g)
    BY <1>1, <2>1, ProductLaws
  <2>3. p ** H \in Finite
    BY <2>1, OnResidues
  <2> QED  BY <1>1, <1>6, <2>1, <2>2, <2>3, Cancel
<1>7. ASSUME k # 2, w ** p = G, z = w ** g PROVE z ** p = Gravity(k + 1)
  <2>1. (w ** g) ** p = w ** (g ** p) /\ g ** p = p ** g /\ w ** (p ** g) = (w ** p) ** g
    BY <1>1, ProductLaws
  <2> QED  BY <1>3, <1>7, <2>1
<1>8. ASSUME k # -2, w ** p = G, z ** g = w PROVE z ** p = H
  <2>1. H \in Finite /\ H ** g = G
    BY <1>4, <1>8 DEF H
  <2>2. (z ** p) ** g = z ** (p ** g) /\ p ** g = g ** p /\ z ** (g ** p) = (z ** g) ** p
    BY <1>1, ProductLaws
  <2>3. z ** p \in Finite
    BY OnResidues
  <2>4. (z ** p) ** g = H ** g
    BY <1>8, <2>1, <2>2
  <2> QED  BY <1>1, <2>1, <2>3, <2>4, Cancel
<1>9. ASSUME w = p ** G, z ** w = 1 PROVE z ** p = I
  <2>1. z ** (p ** G) = (z ** p) ** G
    BY <1>1, ProductLaws
  <2>2. I ** G = 1
    BY <1>1, <1>2, ProductLaws
  <2>3. z ** p \in Finite
    BY OnResidues
  <2> QED  BY <1>1, <1>2, <1>9, <2>1, <2>2, <2>3, Cancel
<1>10. ASSUME w ** p = G, z ** w = 1 PROVE z = p ** I
  <2>1. w \in NonZero
    <3>1. w = 0 => z ** w = 0
      BY ProductLaws
    <3> QED  BY <1>10, <3>1, Digits DEF NonZero
  <2>2. p ** I \in Finite
    BY <1>2, OnResidues
  <2>3. (p ** I) ** w = w ** (p ** I) /\ w ** (p ** I) = (w ** p) ** I
    BY <1>2, <2>2, ProductLaws
  <2>4. (p ** I) ** w = 1
    BY <1>2, <1>10, <2>3
  <2> QED  BY <1>10, <2>1, <2>2, <2>4, Cancel
<1> QED  BY <1>5, <1>6, <1>7, <1>8, <1>9, <1>10 DEF g, G, I, H

\* What is on the way stays on it while other units are visited.
LEMMA WayStays ==
  ASSUME NEW units \in SUBSET Unflagged, NEW more \in SUBSET Unflagged, units \subseteq more,
         NEW e, NEW p, NEW f, NEW w, OnWay(units, e, p, f, w)
  PROVE  OnWay(more, e, p, f, w)
<1>1. \A h : /\ Weighed(units, h) => Weighed(more, h)
             /\ PlainAt(units, h) => PlainAt(more, h)
  BY MarksOfUnits
<1>2. CASE OnPower(units, e, p, f, w)
  BY <1>1, <1>2 DEF OnWay, OnPower
<1>3. CASE OnInverse(units, e, p, f, w)
  BY <1>1, <1>3 DEF OnWay, OnInverse
<1> QED  BY <1>2, <1>3 DEF OnWay

\* From a power of the dimension a step leads to the next power, to the last
\* one, or to the inverse.
LEMMA StepFromPower ==
  ASSUME NEW units \in SUBSET Unflagged, ~WeighsTwice(units),
         NEW e \in KindType, NEW p \in Finite,
         NEW f, NEW w \in Finite, OnPower(units, e, p, f, w),
         NEW h, NEW z \in Finite, Leads(units, f, w, h, z)
  PROVE  OnWay(units, e, p, h, z)
<1>1. PICK k \in -1..1 : /\ f = Raised(e, k) /\ w = p ** Gravity(k)
                         /\ k = 1 => Weighed(units, Raised(e, 0))
                         /\ k = -1 => Weighed(units, Raised(e, -1))
  BY DEF OnPower
<1>2. k \in -2..2 /\ k \in Int
  OBVIOUS
<1>3. /\ Raised(f, 1) = Raised(e, k + 1) /\ Raised(f, -1) = Raised(e, k - 1)
      /\ Opposed(f, 0) = Opposed(e, 0 - k)
  <2>1. k + (-1) = k - 1 /\ -1 \in Int /\ 0 \in Int /\ 1 \in Int
    BY <1>2
  <2>2. \A i \in Int : /\ Raised(f, i) = Raised(e, k + i)
                      /\ Opposed(f, i) = Opposed(e, i - k)
    BY <1>1, <1>2, Compositions
  <2>3. Raised(f, -1) = Raised(e, k + (-1))
    BY <2>1, <2>2
  <2> QED  BY <2>1, <2>2, <2>3
<1>4. \A i \in Int : /\ Raised(Raised(e, i), 1) = Raised(e, i + 1)
                     /\ ~(Weighed(units, Raised(e, i)) /\ Weighed(units, Raised(e, i + 1)))
  <2> TAKE i \in Int
  <2>1. Raised(Raised(e, i), 1) = Raised(e, i + 1)
    BY Compositions
  <2> QED  BY <2>1, MarksOfUnits
<1>5. CASE h = f /\ z = w
  BY <1>1, <1>5 DEF OnWay, OnPower
<1>6. CASE h = Raised(f, 1) /\ Weighed(units, f) /\ z = w ** standard_gravity
  <2>1. z = p ** Gravity(k + 1)
    BY <1>1, <1>2, <1>6, WorthSteps
  <2>2. k # 1
    <3>1. k = 1 => ~(Weighed(units, Raised(e, 0)) /\ Weighed(units, Raised(e, 0 + 1)))
      BY <1>4
    <3> QED  BY <1>1, <1>6, <3>1
  <2>3. k + 1 \in -1..1 /\ k + 1 # -1 /\ (k + 1 = 1 => k = 0)
    BY <1>2, <2>2
  <2>4. k + 1 = 1 => Weighed(units, Raised(e, 0))
    BY <1>1, <1>6, <2>3
  <2> QED  BY <1>3, <1>6, <2>1, <2>3, <2>4 DEF OnWay, OnPower
<1>7. CASE h = Raised(f, -1) /\ Weighed(units, h) /\ z ** standard_gravity = w
  <2>1. z = p ** Gravity(k - 1)
    BY <1>1, <1>2, <1>7, WorthSteps
  <2>2. k # -1
    <3>1. ~(Weighed(units, Raised(e, -2)) /\ Weighed(units, Raised(e, -2 + 1)))
      BY <1>4
    <3>2. -2 + 1 = -1 /\ -1 - 1 = -2
      OBVIOUS
    <3> QED  BY <1>1, <1>3, <1>7, <3>1, <3>2
  <2>3. k - 1 \in -1..1 /\ k - 1 # 1
    BY <1>2, <2>2
  <2>4. k - 1 = -1 => Weighed(units, Raised(e, -1))
    BY <1>3, <1>7
  <2> QED  BY <1>3, <1>7, <2>1, <2>3, <2>4 DEF OnWay, OnPower
<1>8. CASE /\ h = Opposed(f, 0) /\ h # f /\ PlainAt(units, f) /\ PlainAt(units, h)
           /\ z ** w = 1
  <2> DEFINE a == 0 - k
  <2>1. a \in -1..1 /\ a \in -2..2 /\ 0 - a = k /\ a - a \in -1..1
    BY <1>2
  <2>2. h = Opposed(e, a) /\ f = Raised(e, 0 - a)
    BY <1>1, <1>3, <1>8, <2>1
  <2>3. z ** p = Gravity(a)
    BY <1>1, <1>2, <1>8, WorthSteps
  <2>4. /\ a = -1 => Weighed(units, Raised(e, 0))
        /\ a = 1 => Weighed(units, Raised(e, -1))
    BY <1>1, <1>2
  <2>5. a # a + 1 /\ a # a - 1
    BY <2>1
  <2> HIDE DEF a
  <2> QED  BY <1>8, <2>1, <2>2, <2>3, <2>4, <2>5 DEF OnWay, OnInverse
<1> QED  BY <1>5, <1>6, <1>7, <1>8 DEF Leads

\* From the inverse a step leads to the powers around the one where it was
\* taken, or back.
LEMMA StepFromInverse ==
  ASSUME NEW units \in SUBSET Unflagged, ~WeighsTwice(units),
         NEW e \in KindType, NEW p \in Finite,
         NEW f, NEW w \in Finite, OnInverse(units, e, p, f, w),
         NEW h, NEW z \in Finite, Leads(units, f, w, h, z)
  PROVE  OnWay(units, e, p, h, z)
<1>1. PICK a \in -1..1, j \in -2..2 :
        /\ j - a \in -1..1
        /\ f = Opposed(e, j) /\ w ** p = Gravity(j)
        /\ Raised(e, 0 - a) # Opposed(e, a)
        /\ PlainAt(units, Raised(e, 0 - a)) /\ PlainAt(units, Opposed(e, a))
        /\ a = -1 => Weighed(units, Raised(e, 0))
        /\ a = 1 => Weighed(units, Raised(e, -1))
        /\ j = a + 1 => Weighed(units, Opposed(e, a))
        /\ j = a - 1 => Weighed(units, Opposed(e, a - 1))
  BY DEF OnInverse
<1>2. /\ j \in Int /\ a \in Int /\ (j = a \/ j = a + 1 \/ j = a - 1)
      /\ (a = -1 \/ a = 0 \/ a = 1)
  BY <1>1
<1>3. /\ Raised(f, 1) = Opposed(e, j + 1) /\ Raised(f, -1) = Opposed(e, j - 1)
      /\ Opposed(f, 0) = Raised(e, 0 - j)
  <2>1. j + (-1) = j - 1 /\ -1 \in Int /\ 0 \in Int /\ 1 \in Int
    BY <1>2
  <2>2. \A i \in Int : /\ Raised(f, i) = Opposed(e, j + i)
                      /\ Opposed(f, i) = Raised(e, i - j)
    BY <1>1, <1>2, Compositions
  <2>3. Raised(f, -1) = Opposed(e, j + (-1))
    BY <2>1, <2>2
  <2> QED  BY <2>1, <2>2, <2>3
<1>4. \A i \in Int :
        /\ ~(Weighed(units, Raised(e, i)) /\ Weighed(units, Raised(e, i + 1)))
        /\ ~(Weighed(units, Opposed(e, i)) /\ Weighed(units, Opposed(e, i + 1)))
        /\ PlainAt(units, Raised(e, i)) /\ PlainAt(units, Raised(e, i + 1))
             => Weighed(units, Raised(e, i))
  <2> TAKE i \in Int
  <2>1. /\ Raised(Raised(e, i), 1) = Raised(e, i + 1)
        /\ Raised(Opposed(e, i), 1) = Opposed(e, i + 1)
    BY Compositions
  <2> QED  BY <2>1, MarksOfUnits
<1>5. CASE h = f /\ z = w
  BY <1>1, <1>5 DEF OnWay, OnInverse
<1>6. CASE h = Raised(f, 1) /\ Weighed(units, f) /\ z = w ** standard_gravity
  <2>1. j # a + 1
    BY <1>1, <1>2, <1>4, <1>6
  <2>2. j + 1 \in -2..2 /\ (j + 1) - a \in -1..1 /\ j # 2
    BY <1>2, <2>1
  <2>3. z ** p = Gravity(j + 1)
    BY <1>1, <1>6, <2>2, WorthSteps
  <2>4. j + 1 = a + 1 => Weighed(units, Opposed(e, a))
    BY <1>1, <1>2, <1>6
  <2>5. j + 1 # a - 1
    BY <1>2
  <2> QED  BY <1>1, <1>3, <1>6, <2>2, <2>3, <2>4, <2>5 DEF OnWay, OnInverse
<1>7. CASE h = Raised(f, -1) /\ Weighed(units, h) /\ z ** standard_gravity = w
  <2>1. j # a - 1
    <3>1. j = a - 1 => (j - 1) + 1 = a - 1 /\ j - 1 \in Int
      BY <1>2
    <3> QED  BY <1>1, <1>3, <1>4, <1>7, <3>1
  <2>2. j - 1 \in -2..2 /\ (j - 1) - a \in -1..1 /\ j # -2
    BY <1>2, <2>1
  <2>3. z ** p = Gravity(j - 1)
    BY <1>1, <1>7, <2>2, WorthSteps
  <2>4. j - 1 = a - 1 => Weighed(units, Opposed(e, a - 1))
    BY <1>2, <1>3, <1>7
  <2>5. j - 1 # a + 1
    BY <1>2
  <2> QED  BY <1>1, <1>3, <1>7, <2>2, <2>3, <2>4, <2>5 DEF OnWay, OnInverse
<1>8. CASE /\ h = Opposed(f, 0) /\ h # f /\ PlainAt(units, f) /\ PlainAt(units, h)
           /\ z ** w = 1
  <2> DEFINE k == 0 - j
  <2>1. k \in Int /\ h = Raised(e, k) /\ z = p ** Gravity(k)
    BY <1>1, <1>2, <1>3, <1>8, WorthSteps
  <2>2. PlainAt(units, Raised(e, 0 - a)) /\ PlainAt(units, Raised(e, k))
    BY <1>1, <1>8, <2>1
  <2>3. /\ k = 1 => Weighed(units, Raised(e, 0))
        /\ k = -1 => Weighed(units, Raised(e, -1))
        /\ k \in -1..1
    <3>1. CASE j = a
      BY <1>1, <1>2, <3>1
    <3>2. CASE j = a + 1
      <4>1. k + 1 = 0 - a
        BY <1>2, <3>2
      <4>2. Weighed(units, Raised(e, k))
        BY <1>4, <2>1, <2>2, <4>1
      <4>3. a # 1
        <5>1. a = 1 => k = -2 /\ k + 1 = -1
          BY <3>2
        <5> QED  BY <1>1, <1>4, <2>1, <4>2, <5>1
      <4>4. k = -1 \/ k = 0
        BY <1>2, <3>2, <4>3
      <4> QED  BY <4>2, <4>4
    <3>3. CASE j = a - 1
      <4>1. k = (0 - a) + 1 /\ 0 - a \in Int
        BY <1>2, <3>3
      <4>2. Weighed(units, Raised(e, 0 - a))
        BY <1>4, <2>2, <4>1
      <4>3. a # -1
        <5>1. a = -1 => 0 - a = 0 + 1
          OBVIOUS
        <5> QED  BY <1>1, <1>4, <4>2, <5>1
      <4>4. (k = 0 /\ a = 1) \/ (k = 1 /\ 0 - a = 0)
        BY <1>2, <3>3, <4>3
      <4> QED  BY <4>2, <4>4
    <3> QED  BY <1>2, <3>1, <3>2, <3>3
  <2> HIDE DEF k
  <2> QED  BY <2>1, <2>3 DEF OnWay, OnPower
<1> QED  BY <1>5, <1>6, <1>7, <1>8 DEF Leads

\* Where the dimension meets its inverse a step leads to what the way leads to.
LEMMA DirectIsPower ==
  ASSUME NEW units \in SUBSET Unflagged, ~WeighsTwice(units),
         NEW e \in KindType, NEW p \in Finite,
         NEW f, NEW w \in Finite, OnPower(units, e, p, f, w),
         NEW z \in Finite, Leads(units, e, p, f, z)
  PROVE  z = w
<1>1. PICK k \in -1..1 : /\ f = Raised(e, k) /\ w = p ** Gravity(k)
                         /\ k = 1 => Weighed(units, Raised(e, 0))
                         /\ k = -1 => Weighed(units, Raised(e, -1))
  BY DEF OnPower
<1>2. k \in Int /\ e = Raised(e, 0) /\ 0 \in Int /\ 1 \in Int /\ -1 \in Int
  BY KindTyped
<1>3. /\ k - 0 \in -3..3 /\ k - 1 \in -3..3 /\ k - (-1) \in -3..3
  BY <1>2
<1>4. p ** 1 = p /\ Gravity(0) = 1 /\ Gravity(1) = standard_gravity
      /\ standard_gravity \in NonZero
  BY Digits, ProductLaws, GravityPowers
<1>5. CASE f = e /\ z = p
  <2>1. k = 0
    BY <1>1, <1>2, <1>3, <1>5, DistinctPowers
  <2> QED  BY <1>1, <1>4, <1>5, <2>1
<1>6. CASE f = Opposed(e, 0) /\ f # e
  <2>0. Raised(e, k) = Opposed(e, 0)
    BY <1>1, <1>6
  <2>a. ASSUME NEW i \in Int, i = 0 PROVE (k - i) % 2 = 0
    BY <1>2, <2>0, <2>a, Meeting
  <2>1. (k - 0) % 2 = 0
    BY <1>2, <2>a
  <2>2. k = 0
    BY <1>1, <2>1
  <2> QED  BY <1>1, <1>2, <1>6, <2>2
<1>7. CASE f = Raised(e, 1) /\ z = p ** standard_gravity
  <2>1. k = 1
    BY <1>1, <1>2, <1>3, <1>7, DistinctPowers
  <2> QED  BY <1>1, <1>4, <1>7, <2>1
<1>8. CASE f = Raised(e, -1) /\ z ** standard_gravity = p
  <2>1. k = -1
    BY <1>1, <1>2, <1>3, <1>8, DistinctPowers
  <2>2. 0 \in -2..2 /\ 0 # -2 /\ 0 - 1 = -1 /\ p = p ** Gravity(0)
    BY <1>4
  <2>3. z = p ** Gravity(0 - 1)
    BY <1>8, <2>2, WorthSteps
  <2> QED  BY <1>1, <2>1, <2>2, <2>3
<1> QED  BY <1>5, <1>6, <1>7, <1>8 DEF Leads

\* And where the inverse meets the dimension.
LEMMA DirectIsInverse ==
  ASSUME NEW units \in SUBSET Unflagged, ~WeighsTwice(units),
         NEW e \in KindType, NEW p \in Finite,
         NEW f, NEW w \in Finite, OnInverse(units, e, p, f, w),
         NEW z \in Finite, Leads(units, e, p, f, z)
  PROVE  z = w
<1>1. PICK a \in -1..1, j \in -2..2 :
        /\ j - a \in -1..1
        /\ f = Opposed(e, j) /\ w ** p = Gravity(j)
        /\ Raised(e, 0 - a) # Opposed(e, a)
        /\ a = -1 => Weighed(units, Raised(e, 0))
        /\ a = 1 => Weighed(units, Raised(e, -1))
        /\ j = a + 1 => Weighed(units, Opposed(e, a))
        /\ j = a - 1 => Weighed(units, Opposed(e, a - 1))
  BY DEF OnInverse
<1>2. /\ a \in Int /\ j \in Int /\ e = Raised(e, 0)
      /\ 0 \in Int /\ 1 \in Int /\ -1 \in Int
      /\ a = -1 \/ a = 0 \/ a = 1
      /\ j = a \/ j = a + 1 \/ j = a - 1
  BY <1>1, KindTyped
<1>3. \A i \in Int : ~(Weighed(units, Raised(e, i)) /\ Weighed(units, Raised(e, i + 1)))
  <2> TAKE i \in Int
  <2>1. Raised(Raised(e, i), 1) = Raised(e, i + 1)
    BY Compositions
  <2> QED  BY <2>1, MarksOfUnits
<1>4. ~(Weighed(units, Raised(e, -1)) /\ Weighed(units, Raised(e, 0)))
      /\ ~(Weighed(units, Raised(e, 0)) /\ Weighed(units, Raised(e, 1)))
      /\ ~(Weighed(units, Raised(e, -2)) /\ Weighed(units, Raised(e, -1)))
  <2>1. -1 + 1 = 0 /\ 0 + 1 = 1 /\ -2 + 1 = -1 /\ -2 \in Int
    OBVIOUS
  <2> QED  BY <1>2, <1>3, <2>1
<1>5. ASSUME NEW k \in Int, Raised(e, k) = Opposed(e, j)
      PROVE  /\ (k - j) % 2 = 0
             /\ \A n \in Int : Raised(e, k + (n - j)) = Opposed(e, n)
  <2>1. \A i \in Int : Raised(e, k + i) = Opposed(e, j + i)
    BY <1>2, <1>5, Meeting
  <2>2. ASSUME NEW n \in Int PROVE Raised(e, k + (n - j)) = Opposed(e, n)
    <3>1. n - j \in Int /\ j + (n - j) = n
      BY <1>2
    <3> QED  BY <2>1, <3>1
  <2> QED  BY <1>2, <1>5, <2>2, Meeting
<1>6. CASE f = e /\ z = p
  <2>1. /\ (0 - j) % 2 = 0
        /\ \A n \in Int : Raised(e, 0 + (n - j)) = Opposed(e, n)
    BY <1>1, <1>2, <1>5, <1>6
  <2>2. j = 0 \/ j = 2 \/ j = -2
    BY <1>1, <2>1
  <2>3. Raised(e, 0 + (a - j)) = Opposed(e, a) /\ Raised(e, 0 + ((a - 1) - j)) = Opposed(e, a - 1)
    BY <1>2, <2>1
  <2>4. CASE j = 0 /\ a = 0
    <3>1. 0 + (a - j) = 0 - a
      BY <2>4
    <3> QED  BY <1>1, <2>3, <3>1
  <2>5. CASE j = 0 /\ a = 1
    <3>1. 0 + ((a - 1) - j) = 0 /\ j = a - 1
      BY <2>5
    <3> QED  BY <1>1, <1>4, <2>3, <2>5, <3>1
  <2>6. CASE j = 0 /\ a = -1
    <3>1. 0 + (a - j) = -1 /\ j = a + 1
      BY <2>6
    <3> QED  BY <1>1, <1>4, <2>3, <2>6, <3>1
  <2>7. CASE j = 2 /\ a = 1
    <3>1. 0 + (a - j) = 0 - a
      BY <2>7
    <3> QED  BY <1>1, <2>3, <3>1
  <2>8. CASE j = -2 /\ a = -1
    <3>1. 0 + (a - j) = 0 - a
      BY <2>8
    <3> QED  BY <1>1, <2>3, <3>1
  <2> QED  BY <1>2, <2>2, <2>4, <2>5, <2>6, <2>7, <2>8
<1>7. CASE f = Opposed(e, 0) /\ z ** p = 1
  <2>1. j - 0 \in -3..3
    BY <1>1
  <2>2. j = 0
    BY <1>1, <1>2, <1>7, <2>1, DistinctPowers
  <2>3. w ** p = 1
    BY <1>1, <2>2, GravityPowers
  <2>4. p \in NonZero
    <3>1. p = 0 => z ** p = 0
      BY ProductLaws
    <3> QED  BY <1>7, <3>1, Digits
  <2> QED  BY <1>7, <2>3, <2>4, Cancel
<1>8. CASE f = Raised(e, 1) /\ Weighed(units, e)
  <2>1. /\ (1 - j) % 2 = 0
        /\ \A n \in Int : Raised(e, 1 + (n - j)) = Opposed(e, n)
    BY <1>1, <1>2, <1>5, <1>8
  <2>2. j = 1 \/ j = -1
    BY <1>1, <2>1
  <2>3. Raised(e, 1 + (a - j)) = Opposed(e, a) /\ Raised(e, 1 + ((a - 1) - j)) = Opposed(e, a - 1)
    BY <1>2, <2>1
  <2>4. CASE j = 1 /\ a = 0
    <3>1. 1 + (a - j) = 0 - a
      BY <2>4
    <3> QED  BY <1>1, <2>3, <3>1
  <2>5. CASE a = 1
    BY <1>1, <1>2, <1>4, <1>8, <2>5
  <2>6. CASE j = -1 /\ a = 0
    <3>1. 1 + ((a - 1) - j) = 1 /\ j = a - 1
      BY <2>6
    <3> QED  BY <1>1, <1>2, <1>4, <1>8, <2>3, <3>1
  <2>7. CASE j = -1 /\ a = -1
    <3>1. 1 + (a - j) = 0 - a
      BY <2>7
    <3> QED  BY <1>1, <2>3, <3>1
  <2> QED  BY <1>2, <2>2, <2>4, <2>5, <2>6, <2>7
<1>9. CASE f = Raised(e, -1) /\ Weighed(units, f)
  <2>1. /\ (-1 - j) % 2 = 0
        /\ \A n \in Int : Raised(e, -1 + (n - j)) = Opposed(e, n)
    BY <1>1, <1>2, <1>5, <1>9
  <2>2. j = 1 \/ j = -1
    BY <1>1, <2>1
  <2>3. Raised(e, -1 + (a - j)) = Opposed(e, a)
    BY <1>2, <2>1
  <2>4. CASE j = 1 /\ a = 0
    <3>1. -1 + (a - j) = -2 /\ j = a + 1
      BY <2>4
    <3> QED  BY <1>1, <1>4, <1>9, <2>3, <3>1
  <2>5. CASE j = 1 /\ a = 1
    <3>1. -1 + (a - j) = 0 - a
      BY <2>5
    <3> QED  BY <1>1, <2>3, <3>1
  <2>6. CASE j = -1 /\ a = 0
    <3>1. -1 + (a - j) = 0 - a
      BY <2>6
    <3> QED  BY <1>1, <2>3, <3>1
  <2>7. CASE a = -1
    BY <1>1, <1>4, <1>9, <2>7
  <2> QED  BY <1>2, <2>2, <2>4, <2>5, <2>6, <2>7
<1> QED  BY <1>6, <1>7, <1>8, <1>9 DEF Leads

\* A way and a step from the same worth lead to the same worth.
LEMMA DirectOnWay ==
  ASSUME NEW units \in SUBSET Unflagged, ~WeighsTwice(units),
         NEW e \in KindType, NEW p \in Finite,
         NEW f, NEW w \in Finite, OnWay(units, e, p, f, w),
         NEW z \in Finite, Leads(units, e, p, f, z)
  PROVE  z = w
BY DirectIsPower, DirectIsInverse DEF OnWay

(***************************************************************************)
(* A kilo that is taken for a kilogram or a kilometer.  The way goes on    *)
(* from there, and leads nowhere a number of things could lead.            *)
(***************************************************************************)
Massless(e) == e["kilogram"] = 0
Pure(e) == Massless(e) /\ (e["meter"] + e["meter"] + e["second"]) % 4 = 0

\* What twice a number and another leave when they are divided by four.
LEMMA Quarters ==
  ASSUME NEW x \in Int, NEW y \in Int, NEW a \in Int, NEW b \in Int,
         x % 4 = a % 4, y % 4 = b % 4
  PROVE  /\ (a + a + b) % 4 = 0 => (x + x + y) % 4 = 0
         /\ (0 - (a + a + b)) % 4 = 0 => (x + x + y) % 4 = 0
<1>1. \A n \in Int : \E i \in Int : n = 4 * i + (n % 4) /\ n % 4 \in Int
  OBVIOUS
<1>2. PICK i \in Int : x = 4 * i + (x % 4) /\ x % 4 \in Int
  BY <1>1
<1>3. PICK j \in Int : y = 4 * j + (y % 4) /\ y % 4 \in Int
  BY <1>1
<1>4. PICK k \in Int : a = 4 * k + (a % 4)
  BY <1>1
<1>5. PICK l \in Int : b = 4 * l + (b % 4)
  BY <1>1
<1> DEFINE n == a + a + b
           q == (i + i + j) - (k + k + l)
<1>6. n \in Int /\ q \in Int /\ x + x + y = n + 4 * q
  BY <1>2, <1>3, <1>4, <1>5
<1> HIDE DEF n, q
<1>7. \A s \in Int, t \in Int : s % 4 = 0 => (s + 4 * t) % 4 = 0
  OBVIOUS
<1>8. (0 - n) % 4 = 0 => n % 4 = 0
  BY <1>6
<1> QED  BY <1>6, <1>7, <1>8 DEF n

\* Neither inverses nor powers of an acceleration add or take away mass, or
\* a length alone.
LEMMA PureStays ==
  ASSUME NEW e \in KindType, NEW k \in Int, NEW f \in {Raised(e, k), Opposed(e, k)}
  PROVE  (Massless(e) => Massless(f)) /\ (Pure(e) => Pure(f))
<1>1. /\ "meter" \in Kinds /\ "second" \in Kinds /\ "kilogram" \in Kinds
      /\ "meter" \in Base /\ "second" \in Base /\ "kilogram" \in Base
  BY KindsOfLength
<1> DEFINE m == e["meter"]
           s == e["second"]
           g == e["kilogram"]
<1>2. m \in Int /\ s \in Int /\ g \in Int
  BY <1>1 DEF KindType
<1>3. \/ /\ f["meter"] = Wrap("meter", m + k)
         /\ f["second"] = Wrap("second", s + (0 - (k + k)))
         /\ f["kilogram"] = Wrap("kilogram", g + 0)
      \/ /\ f["meter"] = Wrap("meter", k - m)
         /\ f["second"] = Wrap("second", (0 - (k + k)) - s)
         /\ f["kilogram"] = Wrap("kilogram", 0 - g)
  BY <1>1 DEF Raised, Opposed, Accelerated
<1>4. Wrap("kilogram", 0) = 0
  <2>1. MinVal("kilogram") <= 0 /\ 0 <= MaxVal("kilogram")
    <3>1. Half["kilogram"] \in {2, 4, 8, 32, 128}
      BY <1>1, HalfAssumption
    <3> QED  BY <3>1 DEF MinVal, MaxVal
  <2> QED  BY <1>1, <2>1, WrapFits
<1> HIDE DEF m, s, g
<1>5. g = 0 => f["kilogram"] = 0
  <2> SUFFICES ASSUME g = 0 PROVE f["kilogram"] = 0
    OBVIOUS
  <2>1. g + 0 = 0 /\ 0 - g = 0
    OBVIOUS
  <2> QED  BY <1>3, <1>4, <2>1
<1>6. ASSUME (m + m + s) % 4 = 0 PROVE (f["meter"] + f["meter"] + f["second"]) % 4 = 0
  <2>1. CASE /\ f["meter"] = Wrap("meter", m + k)
             /\ f["second"] = Wrap("second", s + (0 - (k + k)))
    <3> DEFINE a == m + k
               b == s + (0 - (k + k))
    <3>1. a \in Int /\ b \in Int /\ a + a + b = m + m + s
      BY <1>2
    <3> HIDE DEF a, b
    <3>2. f["meter"] = Wrap("meter", a) /\ f["second"] = Wrap("second", b)
      BY <2>1 DEF a, b
    <3>3. f["meter"] % 4 = a % 4 /\ f["second"] % 4 = b % 4
      BY <1>1, <3>1, <3>2, WrapParity
    <3>4. f["meter"] \in Int /\ f["second"] \in Int
      BY <1>1, <3>1, <3>2, WrapRange
    <3> QED  BY <1>6, <3>1, <3>3, <3>4, Quarters
  <2>2. CASE /\ f["meter"] = Wrap("meter", k - m)
             /\ f["second"] = Wrap("second", (0 - (k + k)) - s)
    <3> DEFINE a == k - m
               b == (0 - (k + k)) - s
    <3>1. a \in Int /\ b \in Int /\ m + m + s = 0 - (a + a + b)
      BY <1>2
    <3> HIDE DEF a, b
    <3>2. f["meter"] = Wrap("meter", a) /\ f["second"] = Wrap("second", b)
      BY <2>2 DEF a, b
    <3>3. f["meter"] % 4 = a % 4 /\ f["second"] % 4 = b % 4
      BY <1>1, <3>1, <3>2, WrapParity
    <3>4. f["meter"] \in Int /\ f["second"] \in Int
      BY <1>1, <3>1, <3>2, WrapRange
    <3> QED  BY <1>6, <3>1, <3>3, <3>4, Quarters
  <2> QED  BY <1>3, <2>1, <2>2
<1> QED  BY <1>5, <1>6 DEF Massless, Pure, m, s, g

\* Nor do they take it back.
LEMMA PureOnWay ==
  ASSUME NEW e \in KindType, NEW k \in Int, NEW f \in {Raised(e, k), Opposed(e, k)}
  PROVE  (Massless(e) <=> Massless(f)) /\ (Pure(e) <=> Pure(f))
<1>1. f \in KindType
  BY KindTyped
<1>2. k - k = 0 /\ k + (0 - k) = 0 /\ 0 - k \in Int
  OBVIOUS
<1>3. Raised(e, 0) = e
  BY KindTyped
<1>4. CASE f = Raised(e, k)
  <2>1. Raised(f, 0 - k) = Raised(e, k + (0 - k))
    BY <1>2, <1>4, Compositions
  <2>2. e = Raised(f, 0 - k)
    BY <1>2, <1>3, <2>1
  <2> QED  BY <1>1, <1>2, <2>2, PureStays
<1>5. CASE f = Opposed(e, k)
  <2>1. Opposed(f, k) = Raised(e, k - k)
    BY <1>2, <1>5, Compositions
  <2>2. e = Opposed(f, k)
    BY <1>2, <1>3, <2>1
  <2> QED  BY <1>1, <2>2, PureStays
<1> QED  BY <1>4, <1>5

\* So it is along a way, and of every step.
LEMMA PureWays ==
  ASSUME NEW units, NEW e \in KindType, NEW p, NEW f, NEW w
  PROVE  OnWay(units, e, p, f, w) \/ Leads(units, e, p, f, w)
           => (Massless(e) <=> Massless(f)) /\ (Pure(e) <=> Pure(f))
<1>1. ASSUME OnWay(units, e, p, f, w)
      PROVE  (Massless(e) <=> Massless(f)) /\ (Pure(e) <=> Pure(f))
  <2>1. \E k \in Int : f \in {Raised(e, k), Opposed(e, k)}
    BY <1>1 DEF OnWay, OnPower, OnInverse
  <2> QED  BY <2>1, PureOnWay
<1>2. ASSUME Leads(units, e, p, f, w)
      PROVE  (Massless(e) <=> Massless(f)) /\ (Pure(e) <=> Pure(f))
  <2>1. e = Raised(e, 0) /\ 0 \in Int /\ 1 \in Int /\ -1 \in Int
    BY KindTyped
  <2>2. \E k \in Int : f \in {Raised(e, k), Opposed(e, k)}
    BY <1>2, <2>1 DEF Leads
  <2> QED  BY <2>2, PureOnWay
<1> QED  BY <1>1, <1>2

\* Kilo is a number; a kilogram has mass and a kilometer is a length alone.
LEMMA KiloKinds ==
  /\ Pure(Kind(kilo)) /\ ~Massless(Kind(kg)) /\ ~Pure(Kind(kg))
  /\ Massless(Kind(km)) /\ ~Pure(Kind(km))
  /\ Kind(kg) \in KindType /\ Kind(km) \in KindType
<1>1. "meter" \in Kinds /\ "second" \in Kinds /\ "kilogram" \in Kinds
      /\ "meter" \in Base /\ "second" \in Base /\ "kilogram" \in Base
  BY KindsOfLength
<1>2. \A p, f : \A b \in Base : dim(p, f).exp[b] = IF b \in DOMAIN p THEN p[b] ELSE 0
  BY DEF dim
<1>3. /\ Kind(kg)["kilogram"] = 1 /\ Kind(km)["kilogram"] = 0
      /\ Kind(km)["meter"] = 1 /\ Kind(km)["second"] = 0
  BY <1>1, <1>2 DEF Kind, kg, km, unit
<1>4. /\ Kind(kilo)["kilogram"] = 0 /\ Kind(kilo)["meter"] = 0 /\ Kind(kilo)["second"] = 0
  BY <1>1 DEF Kind, kilo, unit, Dimensionless
<1> QED  BY <1>3, <1>4, KilosUnflagged, KindTyped DEF Massless, Pure

\* A conversion is a step of its worth, or takes a kilo for something else.
LEMMA StepLeads ==
  ASSUME NEW units \in SUBSET Unflagged, NEW u \in units, NEW v \in units,
         ~AtOdds(u, v), NEW x \in Finite, NEW y \in Finite, StepOf(x, u, y, v)
  PROVE  \/ Leads(units, Kind(u), Worth(x, u), Kind(v), Worth(y, v))
         \/ u = kilo /\ \E r \in {kg, km} : /\ has_same_base(v.base, r.base)
                                            /\ Worth(y, v) = x ** r.multiplier
<1>1. u \in Unflagged /\ v \in Unflagged
  OBVIOUS
<1>2. CASE equivalent_non_counting(u.base, v.base) /\ Worth(y, v) = Worth(x, u)
  BY <1>1, <1>2, RulesOfKinds DEF Leads
<1>3. CASE /\ Inverts(u, v) /\ ~has_same_base(u.base, v.base)
           /\ ~CountsThings(u) /\ ~CountsThings(v) => Worth(y, v) ** Worth(x, u) = 1
  <2>1. ~CountsThings(u) /\ ~CountsThings(v)
    BY <1>3 DEF AtOdds
  <2>2. PlainAt(units, Kind(u)) /\ PlainAt(units, Kind(v))
    BY <2>1 DEF PlainAt
  <2>3. Kind(v) = Opposed(Kind(u), 0) /\ Kind(v) # Kind(u)
    BY <1>1, <1>3, <2>1, RulesOfKinds
  <2> QED  BY <1>3, <2>1, <2>2, <2>3 DEF Leads
<1>4. CASE WeightToMass(v, u) /\ Worth(y, v) = Worth(x, u) ** standard_gravity
  <2>1. Kind(v) = Raised(Kind(u), 1)
    BY <1>1, <1>4, RulesOfKinds
  <2>2. Weighed(units, Kind(u))
    BY <1>4 DEF Weighed
  <2> QED  BY <1>4, <2>1, <2>2 DEF Leads
<1>5. CASE WeightToMass(u, v) /\ Worth(y, v) ** standard_gravity = Worth(x, u)
  <2>1. Kind(u) = Raised(Kind(v), 1) /\ Kind(v) \in KindType
    BY <1>1, <1>5, RulesOfKinds, KindTyped
  <2>2. 1 + (-1) = 0 /\ 1 \in Int /\ -1 \in Int
    OBVIOUS
  <2>3. Raised(Kind(u), -1) = Raised(Kind(v), 1 + (-1))
    BY <2>1, <2>2, Compositions
  <2>4. Kind(v) = Raised(Kind(u), -1)
    BY <2>1, <2>2, <2>3, KindTyped
  <2>5. Weighed(units, Kind(v))
    BY <1>5 DEF Weighed
  <2> QED  BY <1>5, <2>4, <2>5 DEF Leads
<1> QED  BY <1>2, <1>3, <1>4, <1>5 DEF StepOf

(***************************************************************************)
(* Every chain.                                                            *)
(***************************************************************************)
Exempt(units) == WeighsTwice(units) \/ \E u, v \in units : AtOdds(u, v)

\* The way began anew, with the value a kilo had.
ThroughKilo(start, units, m) ==
  \E y \in Finite, r \in {kg, km} :
    /\ Pure(Kind(start.units))
    /\ start.units = kilo => y = start.value
    /\ OnWay(units, Kind(r), y ** r.multiplier, Kind(m.units), Worth(m.value, m.units))

Reaches(start, units, m) ==
  \/ OnWay(units, Kind(start.units), Worth(start.value, start.units),
           Kind(m.units), Worth(m.value, m.units))
  \/ ThroughKilo(start, units, m)

\* A way begins where it is.
LEMMA WayBegins ==
  ASSUME NEW units, NEW e \in KindType, NEW p \in Finite
  PROVE  OnWay(units, e, p, e, p)
<1>1. e = Raised(e, 0) /\ Gravity(0) = 1 /\ p ** 1 = p
  BY KindTyped, GravityPowers, Digits, ProductLaws
<1>2. 0 \in -1..1 /\ 0 # 1 /\ 0 # -1
  OBVIOUS
<1> QED  BY <1>1, <1>2 DEF OnWay, OnPower

\* A way goes on with each step.
LEMMA WayGoesOn ==
  ASSUME NEW units \in SUBSET Unflagged, NEW more \in SUBSET Unflagged, units \subseteq more,
         ~WeighsTwice(more), NEW e \in KindType, NEW p \in Finite,
         NEW f, NEW w \in Finite, OnWay(units, e, p, f, w),
         NEW h, NEW z \in Finite, Leads(more, f, w, h, z)
  PROVE  OnWay(more, e, p, h, z)
<1>1. OnWay(more, e, p, f, w)
  BY WayStays
<1> QED  BY <1>1, StepFromPower, StepFromInverse DEF OnWay

\* What a chain begins with, and where it is.
LEMMA WorthTyped ==
  ASSUME NEW u \in Unflagged, NEW x \in Finite
  PROVE  /\ u \in Undoable /\ Kind(u) \in KindType /\ Worth(x, u) \in Finite
         /\ \A y \in Finite : Worth(y, u) = Worth(x, u) => y = x
<1>1. u \in Undoable /\ Kind(u) \in KindType
  BY UnflaggedFacts, KindTyped
<1> QED  BY <1>1, WorthFacts

\* The units a kilo is taken for.
LEMMA KilosTyped ==
  ASSUME NEW r \in {kg, km}
  PROVE  /\ r \in Unflagged /\ Kind(r) \in KindType /\ ~Pure(Kind(r))
         /\ \A x \in Finite : x ** r.multiplier \in Finite
<1>1. r \in Unflagged
  BY KilosUnflagged
<1>2. r.multiplier \in Finite
  BY <1>1, UnflaggedFacts
<1>3. \A x \in Finite : x ** r.multiplier \in Finite
  BY <1>2, OnResidues
<1> QED  BY <1>1, <1>3, KiloKinds

\* Where a chain is, it is by way of steps.
LEMMA NextReaches ==
  ASSUME NEW start \in [value : Finite, units : Unflagged],
         NEW m \in [value : Finite, units : Unflagged],
         NEW n \in [value : Finite, units : Unflagged],
         NEW units \in SUBSET Unflagged, NEW more \in SUBSET Unflagged,
         more = units \cup {n.units}, m.units \in units, ~Exempt(more),
         Reaches(start, units, m),
         StepOf(m.value, m.units, n.value, n.units)
  PROVE  Reaches(start, more, n)
<1> DEFINE e == Kind(start.units)
           p == Worth(start.value, start.units)
           f == Kind(m.units)
           w == Worth(m.value, m.units)
           h == Kind(n.units)
           z == Worth(n.value, n.units)
<1>1. /\ e \in KindType /\ p \in Finite /\ f \in KindType /\ w \in Finite
      /\ h \in KindType /\ z \in Finite
  BY WorthTyped
<1>2. /\ units \subseteq more /\ m.units \in more /\ n.units \in more
      /\ ~WeighsTwice(more) /\ ~AtOdds(m.units, n.units)
  BY DEF Exempt
<1>3. \/ Leads(more, f, w, h, z)
      \/ m.units = kilo /\ \E r \in {kg, km} : /\ has_same_base(n.units.base, r.base)
                                               /\ z = m.value ** r.multiplier
  BY <1>2, StepLeads
<1>4. \/ OnWay(units, e, p, f, w)
      \/ \E y \in Finite, r \in {kg, km} : /\ Pure(e) /\ (start.units = kilo => y = start.value)
                                           /\ OnWay(units, Kind(r), y ** r.multiplier, f, w)
  BY DEF Reaches, ThroughKilo
<1>5. ASSUME \/ OnWay(more, e, p, h, z)
             \/ \E y \in Finite, r \in {kg, km} :
                  /\ Pure(e) /\ (start.units = kilo => y = start.value)
                  /\ OnWay(more, Kind(r), y ** r.multiplier, h, z)
      PROVE  Reaches(start, more, n)
  BY <1>5 DEF Reaches, ThroughKilo
<1>6. \A r \in {kg, km} : /\ r \in Unflagged /\ Kind(r) \in KindType /\ ~Pure(Kind(r))
                          /\ \A y \in Finite : y ** r.multiplier \in Finite
  BY KilosTyped
<1>7. CASE Leads(more, f, w, h, z)
  <2> HIDE DEF e, p, f, w, h, z
  <2>1. CASE OnWay(units, e, p, f, w)
    <3>1. OnWay(more, e, p, h, z)
      BY <1>1, <1>2, <1>7, <2>1, WayGoesOn
    <3> QED  BY <1>5, <3>1
  <2>2. ASSUME NEW y \in Finite, NEW r \in {kg, km}, Pure(e), start.units = kilo => y = start.value,
               OnWay(units, Kind(r), y ** r.multiplier, f, w)
        PROVE  Reaches(start, more, n)
    <3>1. Kind(r) \in KindType /\ y ** r.multiplier \in Finite
      BY <1>6
    <3>2. OnWay(more, Kind(r), y ** r.multiplier, h, z)
      BY <1>1, <1>2, <1>7, <2>2, <3>1, WayGoesOn
    <3> QED  BY <1>5, <2>2, <3>2
  <2> QED  BY <1>4, <2>1, <2>2
<1>8. ASSUME m.units = kilo, NEW r \in {kg, km}, has_same_base(n.units.base, r.base),
             z = m.value ** r.multiplier
      PROVE  Reaches(start, more, n)
  <2>1. h = Kind(r)
    BY <1>6, <1>8, RulesOfKinds
  <2>2. OnWay(more, Kind(r), m.value ** r.multiplier, h, z)
    BY <1>1, <1>8, <2>1, WayBegins
  <2>3. Pure(f)
    BY <1>8, KiloKinds
  <2>4. OnWay(units, e, p, f, w)
    <3>1. ASSUME NEW y \in Finite, NEW q \in {kg, km},
                 OnWay(units, Kind(q), y ** q.multiplier, f, w)
          PROVE  FALSE
      BY <1>6, <2>3, <3>1, PureWays
    <3> QED  BY <1>4, <3>1
  <2>5. Pure(e)
    BY <1>1, <2>3, <2>4, PureWays
  <2>6. start.units = kilo => m.value = start.value
    <3> SUFFICES ASSUME start.units = kilo PROVE m.value = start.value
      OBVIOUS
    <3>1. f = e
      BY <1>8
    <3>2. OnWay(more, e, p, f, w)
      BY <1>2, <2>4, WayStays
    <3>3. Leads(more, e, p, f, p)
      BY <3>1 DEF Leads
    <3>4. p = w
      BY <1>1, <1>2, <3>2, <3>3, DirectOnWay
    <3>5. Worth(m.value, m.units) = Worth(start.value, m.units)
      BY <1>8, <3>4
    <3> QED  BY <3>5, WorthTyped
  <2>7. m.value \in Finite
    OBVIOUS
  <2> QED  BY <1>5, <2>2, <2>5, <2>6, <2>7
<1> QED  BY <1>3, <1>7, <1>8

\* Where a chain is, a conversion from where it began leads as well.
LEMMA DirectlyReached ==
  ASSUME NEW start \in [value : Finite, units : Unflagged],
         NEW m \in [value : Finite, units : Unflagged],
         NEW units \in SUBSET Unflagged, start.units \in units, m.units \in units,
         ~Exempt(units), Reaches(start, units, m),
         NEW y \in Finite, StepOf(start.value, start.units, y, m.units)
  PROVE  y = m.value
<1> DEFINE e == Kind(start.units)
           p == Worth(start.value, start.units)
           f == Kind(m.units)
           w == Worth(m.value, m.units)
           z == Worth(y, m.units)
<1>1. /\ e \in KindType /\ p \in Finite /\ f \in KindType /\ w \in Finite /\ z \in Finite
  BY WorthTyped
<1>2. ~WeighsTwice(units) /\ ~AtOdds(start.units, m.units)
  BY DEF Exempt
<1>3. \/ Leads(units, e, p, f, z)
      \/ start.units = kilo /\ \E r \in {kg, km} : /\ has_same_base(m.units.base, r.base)
                                                   /\ z = start.value ** r.multiplier
  BY <1>2, StepLeads
<1>4. \/ OnWay(units, e, p, f, w)
      \/ \E x \in Finite, r \in {kg, km} : /\ Pure(e) /\ (start.units = kilo => x = start.value)
                                           /\ OnWay(units, Kind(r), x ** r.multiplier, f, w)
  BY DEF Reaches, ThroughKilo
<1>5. \A r \in {kg, km} : /\ r \in Unflagged /\ Kind(r) \in KindType /\ ~Pure(Kind(r))
                          /\ \A x \in Finite : x ** r.multiplier \in Finite
  BY KilosTyped
<1>6. ASSUME z = w PROVE y = m.value
  BY <1>6, WorthTyped
<1>7. CASE Leads(units, e, p, f, z)
  <2>1. Pure(e) <=> Pure(f)
    BY <1>1, <1>7, PureWays
  <2>2. OnWay(units, e, p, f, w)
    <3>1. ASSUME NEW x \in Finite, NEW r \in {kg, km}, Pure(e),
                 OnWay(units, Kind(r), x ** r.multiplier, f, w)
          PROVE  FALSE
      BY <1>5, <2>1, <3>1, PureWays
    <3> QED  BY <1>4, <3>1
  <2>3. z = w
    BY <1>1, <1>2, <1>7, <2>2, DirectOnWay
  <2> QED  BY <1>6, <2>3
<1>8. ASSUME start.units = kilo, NEW r \in {kg, km}, has_same_base(m.units.base, r.base),
             z = start.value ** r.multiplier
      PROVE  y = m.value
  <2>1. f = Kind(r)
    BY <1>5, <1>8, RulesOfKinds
  <2>2. Pure(e)
    BY <1>8, KiloKinds
  <2>3. ~OnWay(units, e, p, f, w)
    BY <1>1, <1>5, <2>1, <2>2, PureWays
  <2>4. PICK q \in {kg, km} : OnWay(units, Kind(q), start.value ** q.multiplier, f, w)
    BY <1>4, <1>8, <2>3
  <2>5. q = r
    <3>1. Massless(Kind(q)) <=> Massless(Kind(r))
      BY <1>5, <2>1, <2>4, PureWays
    <3> QED  BY <3>1, KiloKinds
  <2>6. Leads(units, f, z, f, z)
    BY DEF Leads
  <2>7. OnWay(units, f, z, f, w)
    BY <1>8, <2>1, <2>4, <2>5
  <2>8. z = w
    BY <1>1, <1>2, <2>6, <2>7, DirectOnWay
  <2> QED  BY <1>6, <2>8
<1> QED  BY <1>3, <1>7, <1>8

\* No unit of a chain has a flag that a rule asks for.
Bare(units) ==
  \A u \in units : /\ u.multiplier # 0
                   /\ u.base.flags \cap {"per_unit", "e_flag", "equation"} = {}

\* Where such chains are, for a client that gives no base.
ChainReaches ==
  bases = 0 /\ IsNumber(meas.value) /\ Bare(visited) /\ ~Exempt(visited)
    => Reaches(origin, visited, meas)

\* The units of a chain.
Chained ==
  /\ origin \in [value : Finite, units : Reached]
  /\ meas.units \in Reached /\ meas = measurement(meas.value, meas.units)
  /\ visited \in SUBSET Reached

\* The units of the lemmas above.
LEMMA BareUnflagged ==
  ASSUME NEW units \in SUBSET Reached, Bare(units)
  PROVE  units \in SUBSET Unflagged
<1> SUFFICES ASSUME NEW u \in units PROVE u \in Unflagged
  OBVIOUS
<1>1. u \in UnitType
  BY ReachedTyped
<1>2. InFields(u.base)
  <2>1. PICK v \in Unit : u.base = v.base
    BY DEF Reached, unit
  <2> QED  BY <2>1, MeasurementAssumption
<1>3. /\ u.multiplier # 0 /\ ~equation(u)
      /\ u.base.flags \cap {"per_unit", "e_flag", "equation"} = {}
  BY DEF Bare, equation
<1> QED  BY <1>1, <1>2, <1>3 DEF Unflagged, Undoable, UnitType, NonZero

\* A unit of the same dimension with multiplier one is worth what it was.
LEMMA BaseStep ==
  ASSUME NEW u \in Unflagged, unit(1, u.base) \in Unflagged, NEW x \in Finite
  PROVE  /\ x ** u.multiplier \in Finite
         /\ StepOf(x, u, x ** u.multiplier, unit(1, u.base))
<1> DEFINE v == unit(1, u.base)
           y == x ** u.multiplier
<1>1. y \in Finite /\ y ** 1 = y
  BY UnflaggedFacts, OnResidues, Digits, ProductLaws
<1>2. v.multiplier = 1 /\ v.base = u.base
  BY DEF unit
<1>3. CountedAs(v) = CountedAs(u) /\ equivalent_non_counting(u.base, v.base)
  BY <1>2 DEF CountedAs, equivalent_non_counting
<1>4. Worth(y, v) = Worth(x, u)
  BY <1>1, <1>2, <1>3 DEF Worth
<1> QED  BY <1>1, <1>3, <1>4 DEF StepOf

\* The invariant of all chains.
THEOREM EveryChain == ChainSpec => [](Chained /\ ChainReaches)
<1>1. ChainInit => Chained /\ ChainReaches
  <2> SUFFICES ASSUME ChainInit PROVE Chained /\ ChainReaches
    OBVIOUS
  <2>1. /\ meas.value \in Finite /\ meas.units \in Reached /\ origin = meas
        /\ meas = measurement(meas.value, meas.units)
        /\ visited = {meas.units}
    BY MeasurementAssumption DEF ChainInit, Reached, measurement
  <2>2. meas \in [value : Finite, units : Reached]
    BY <2>1 DEF measurement
  <2>3. ASSUME Bare(visited) PROVE Reaches(origin, visited, meas)
    <3>1. meas.units \in Unflagged
      BY <2>1, <2>3, BareUnflagged
    <3> QED  BY <2>1, <3>1, WorthTyped, WayBegins DEF Reaches
  <2> QED  BY <2>1, <2>2, <2>3 DEF Chained, ChainReaches
<1>2. ChainTypeOK /\ Chained /\ ChainReaches /\ [ChainNext]_chainVars
        => (Chained /\ ChainReaches)'
  <2> SUFFICES ASSUME ChainTypeOK, Chained, ChainReaches, [ChainNext]_chainVars
               PROVE  (Chained /\ ChainReaches)'
    OBVIOUS
  <2>1. meas.units \in Reached /\ meas.units \in visited /\ origin.units \in visited
    BY DEF ChainTypeOK, Reached
  <2>2. ASSUME NEW x, NEW v \in Reached, Become(measurement(x, v)),
               bases = 0 /\ meas.value \in Finite /\ IsNumber(x)
                 /\ meas.units \in Unflagged /\ v \in Unflagged
                 => x \in Finite /\ StepOf(meas.value, meas.units, x, v)
        PROVE  (Chained /\ ChainReaches)'
    <3>1. /\ meas' = measurement(x, v) /\ meas'.value = x /\ meas'.units = v
          /\ visited' = visited \cup {v} /\ origin' = origin /\ bases' = bases
          /\ IsNumber(meas.value)
      BY <2>2 DEF Become, measurement
    <3>2. meas.value \in Finite
      BY <3>1, NumberCases DEF ChainTypeOK
    <3>3. Chained'
      BY <3>1 DEF Chained
    <3>4. ASSUME bases = 0, IsNumber(x), Bare(visited'), ~Exempt(visited')
          PROVE  Reaches(origin, visited', meas')
      <4>1. visited \in SUBSET Reached /\ visited' \in SUBSET Reached
        BY <3>1 DEF Chained
      <4>2. ~Exempt(visited) /\ Bare(visited)
        BY <3>1, <3>4 DEF Exempt, WeighsTwice, Bare
      <4>3. visited \in SUBSET Unflagged /\ visited' \in SUBSET Unflagged
        BY <3>4, <4>1, <4>2, BareUnflagged
      <4>4. meas.units \in Unflagged /\ v \in Unflagged /\ origin.units \in Unflagged
        BY <2>1, <3>1, <4>3
      <4>5. x \in Finite /\ StepOf(meas.value, meas.units, x, v)
        BY <2>2, <3>2, <3>4, <4>4
      <4>6. Reaches(origin, visited, meas)
        BY <3>1, <3>4, <4>2 DEF ChainReaches
      <4>7. /\ meas \in [value : Finite, units : Unflagged]
            /\ meas' \in [value : Finite, units : Unflagged]
            /\ origin \in [value : Finite, units : Unflagged]
        BY <3>1, <3>2, <4>4, <4>5 DEF Chained, measurement
      <4> QED  BY <2>1, <3>1, <3>4, <4>3, <4>5, <4>6, <4>7, NextReaches
    <3> QED  BY <3>1, <3>3, <3>4 DEF ChainReaches
  <2>3. CASE \E u \in Unit : convert_to(u)
    <3> PICK u \in Unit : convert_to(u)
      BY <2>3
    <3>1. u \in Reached
      BY DEF Reached
    <3>2. Become(measurement(Convert(meas.value, meas.units, u), u))
      BY DEF convert_to
    <3>3. ASSUME bases = 0, meas.value \in Finite, IsNumber(Convert(meas.value, meas.units, u)),
                 meas.units \in Unflagged, u \in Unflagged
          PROVE  /\ Convert(meas.value, meas.units, u) \in Finite
                 /\ StepOf(meas.value, meas.units, Convert(meas.value, meas.units, u), u)
      <4>1. Convert(meas.value, meas.units, u) = convert(meas.value, meas.units, u)
        BY <3>3 DEF Convert
      <4>2. convert(meas.value, meas.units, u) # NaN
        BY <3>3, <4>1 DEF IsNumber
      <4> QED  BY <3>3, <4>1, <4>2, Classified
    <3> QED  BY <2>2, <3>1, <3>2, <3>3
  <2>4. CASE convert_to_base
    <3> DEFINE v == unit(1, meas.units.base)
               x == meas.value ** meas.units.multiplier
    <3>1. v \in Reached
      BY <2>1, ReachedTyped
    <3>2. Become(measurement(x, v))
      BY <2>4 DEF convert_to_base, BaseOf
    <3>3. ASSUME meas.value \in Finite, meas.units \in Unflagged, v \in Unflagged
          PROVE  x \in Finite /\ StepOf(meas.value, meas.units, x, v)
      BY <3>3, BaseStep
    <3> HIDE DEF v, x
    <3> QED  BY <2>2, <3>1, <3>2, <3>3
  <2>5. CASE UNCHANGED chainVars
    BY <2>5 DEF chainVars, Chained, ChainReaches
  <2> QED  BY <2>3, <2>4, <2>5 DEF ChainNext
<1> QED  BY <1>1, <1>2, ChainTypeCorrect, PTL DEF ChainSpec

\* PathIndependent, for chains of any length that go through units without
\* flags: where they lead is what the first unit converts to directly, if it
\* does.
THEOREM PathCorrect == ChainSpec => [](Bare(visited) => PathIndependent)
<1>1. ChainTypeOK /\ Chained /\ ChainReaches => (Bare(visited) => PathIndependent)
  <2> SUFFICES ASSUME ChainTypeOK, Chained, ChainReaches, Bare(visited),
                      bases = 0, IsNumber(meas.value),
                      ~WeighsTwice(visited), ~\E u, v \in visited : AtOdds(u, v),
                      convert(origin.value, origin.units, meas.units) # NaN
               PROVE  convert(origin.value, origin.units, meas.units) = meas.value
    BY DEF PathIndependent
  <2> DEFINE y == convert(origin.value, origin.units, meas.units)
  <2>1. /\ origin.units \in visited /\ meas.units \in visited
        /\ visited \in SUBSET Unflagged /\ origin.value \in Finite
        /\ origin.units \in Unflagged /\ meas.units \in Unflagged
    BY BareUnflagged DEF ChainTypeOK, Chained
  <2>2. /\ meas \in [value : Finite, units : Unflagged]
        /\ origin \in [value : Finite, units : Unflagged]
    BY <2>1, NumberCases DEF ChainTypeOK, Chained, measurement
  <2>3. y \in Finite /\ StepOf(origin.value, origin.units, y, meas.units)
    BY <2>1, Classified
  <2>4. ~Exempt(visited)
    BY DEF Exempt
  <2>5. Reaches(origin, visited, meas)
    BY <2>4 DEF ChainReaches
  <2> HIDE DEF y
  <2>6. y = meas.value
    BY <2>1, <2>2, <2>3, <2>4, <2>5, DirectlyReached
  <2> QED  BY <2>6 DEF y
<1> QED  BY <1>1, ChainTypeCorrect, EveryChain, PTL
===============================================================================
