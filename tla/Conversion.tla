----------------------------- MODULE Conversion ------------------------------
(***************************************************************************)
(* The functions convert() of units/units.hpp, and the ones of             *)
(* units/unit_definitions.hpp they rest on.                                *)
(***************************************************************************)
EXTENDS CustomUnits, Numbers

CONSTANTS
  Pi, Avogadro     \* constants::pi and the number in a mole, as residues

ASSUME ConstantsAssumption == {Pi, Avogadro} \subseteq Finite \ {0}

\* No literal that a conversion divides by is zero: those under 10000 are
\* their own residues, of the others the prime divides none.
ASSUME LiteralAssumption ==
         \A n \in {34125, 100000, 980665, 10000000, 105505585, 353146667} :
           n % Prime # 0

Counting == {"mole", "radian", "count"}

(***************************************************************************)
(* Units.                                                                  *)
(***************************************************************************)
unit(multiplier, base) == [multiplier |-> multiplier, base |-> base]

has_same_base(u, v) == u.exp = v.exp
equivalent_non_counting(u, v) ==
  \A b \in Base \ Counting : u.exp[b] = v.exp[b]

per_unit(u) == "per_unit" \in u.base.flags
e_flag(u) == "e_flag" \in u.base.flags
equation(u) == "equation" \in u.base.flags

W == dim([kilogram |-> 1, meter |-> 2, second |-> -3], {})
V == dim([kilogram |-> 1, meter |-> 2, second |-> -3, ampere |-> -1], {})
A == dim([ampere |-> 1], {})
ohm == dim([kilogram |-> 1, meter |-> 2, second |-> -3, ampere |-> -2], {})
S == dim([kilogram |-> -1, meter |-> -2, second |-> 3, ampere |-> 2], {})
J == dim([kilogram |-> 1, meter |-> 2, second |-> -2], {})
Pa == dim([kilogram |-> 1, meter |-> -1, second |-> -2], {})
K == dim([kelvin |-> 1], {})
CubicMeter == dim([meter |-> 3], {})
Acceleration == dim([meter |-> 1, second |-> -2], {})
PerUnit(u) == [u EXCEPT !.flags = @ \cup {"per_unit"}]
EFlagged(u) == [u EXCEPT !.flags = @ \cup {"e_flag"}]

kg == unit(1, dim([kilogram |-> 1], {}))
km == unit(1000, dim([meter |-> 1], {}))
kilo == unit(1000, Dimensionless)
pu == unit(1, PerUnit(Dimensionless))
defunit == unit(1, dim(<<>>, {"per_unit", "i_flag"}))
degF == unit(Rational(5, 9), EFlagged(K))
puHz == unit(1, PerUnit(dim([second |-> -1], {})))
puMW == unit(Rational(1000000, 1), PerUnit(W))
mach == unit(1, PerUnit(dim([meter |-> 1, second |-> -1], {})))
\* energy::scm: 35.3146667 scf of 1100 btu of 1055.05585262 joules.
scm == (Rational(353146667, 10000000) ** 1100) ** Rational(105505585, 100000)
atm == Rational(101325, 1)
standard_gravity == Rational(980665, 100000)

is_default(u) == u = defunit

Scaled(val, start, result) == (val ** start.multiplier) // result.multiplier

(***************************************************************************)
(* Equation units.  The wind scales, 22 and 23, have two polynomials each, *)
(* which undo one another but roughly.                                     *)
(***************************************************************************)
is_power_unit(u) == has_same_base(W, u) \/ u.exp["count"] = -2

convert_equnit_to_value(val, u) ==
  LET t == eq_type(u)
      OfPower(x, y) == IF is_power_unit(u) THEN x ELSE y
  IN IF "equation" \notin u.flags THEN val
     ELSE CASE t \in {0, 10} -> Curve("exp10", val)
            [] t = 1  -> Curve("exp", val // OfPower(Rational(1, 2), 1))
            [] t = 2  -> Curve("exp10", val // OfPower(1, 2))
            [] t = 3  -> Curve("exp10", val // OfPower(10, 20))
            [] t = 4  -> Curve("exp10", 0 -- val)
            [] t = 5  -> Curve("exp10", 2 ** (0 -- val))
            [] t = 6  -> Curve("exp10", 3 ** (0 -- val))
            [] t = 7  -> Curve("exp50000", 0 -- val)
            [] t = 8  -> Curve("exp2", val)
            [] t = 9  -> Curve("exp", val)
            [] t = 11 -> Curve("exp10", val // 10)
            [] t = 12 -> Curve("exp10", val // 2)
            [] t = 13 -> Curve("exp10", val // 20)
            [] t = 14 -> Curve("exp3", val)
            [] t = 15 -> Curve("exp", val // Rational(1, 2))
            [] t = 16 -> Rational(1415, 10) // (val ++ Rational(1315, 10))
            [] t = 17 -> 140 // (130 ++ val)
            [] t = 18 -> 145 // (145 -- val)
            [] t = 22 -> Curve("saffir", val)
            [] t = 23 -> Curve("beaufort", val)
            [] t = 24 -> Rational(141, 10) ** Curve("power1_5", val ++ 2)
            [] t = 27 -> Curve("arctan", val // 100)
            [] t = 29 -> Curve("exp10", (val ++ Rational(107, 10)) ** Rational(3, 2))
            [] t = 30 -> Curve("exp10", (val ++ Rational(32, 10)) ** Rational(3, 2))
            [] OTHER -> val

\* The values are positive: of the logarithms, only that of zero fails.
convert_value_to_equnit(val, u) ==
  LET t == eq_type(u)
      OfPower(x, y) == IF is_power_unit(u) THEN x ELSE y
      log10 == InverseCurve("exp10", val)
  IN IF "equation" \notin u.flags THEN val
     ELSE IF t < 16 /\ val = 0 THEN NaN
     ELSE CASE t \in {0, 10} -> log10
            [] t = 1  -> OfPower(Rational(1, 2), 1) ** InverseCurve("exp", val)
            [] t = 2  -> OfPower(1, 2) ** log10
            [] t = 3  -> OfPower(10, 20) ** log10
            [] t = 4  -> 0 -- log10
            [] t = 5  -> (0 -- log10) // 2
            [] t = 6  -> (0 -- log10) // 3
            [] t = 7  -> 0 -- InverseCurve("exp50000", val)
            [] t = 8  -> InverseCurve("exp2", val)
            [] t = 9  -> InverseCurve("exp", val)
            [] t = 11 -> 10 ** log10
            [] t = 12 -> 2 ** log10
            [] t = 13 -> 20 ** log10
            [] t = 14 -> InverseCurve("exp3", val)
            [] t = 15 -> Rational(1, 2) ** InverseCurve("exp", val)
            [] t = 16 -> (Rational(1415, 10) // val) -- Rational(1315, 10)
            [] t = 17 -> (140 // val) -- 130
            [] t = 18 -> 145 ** (1 -- (1 // val))
            [] t = 22 -> Curve("toSaffir", val)
            [] t = 23 -> Curve("toBeaufort", val)
            [] t = 24 -> InverseCurve("power1_5", val // Rational(141, 10)) -- 2
            [] t = 27 -> 100 ** InverseCurve("arctan", val)
            [] t = 29 -> (Rational(2, 3) ** log10) -- Rational(107, 10)
            [] t = 30 -> (Rational(2, 3) ** log10) -- Rational(32, 10)
            [] OTHER -> val

(***************************************************************************)
(* Units flagged by e_flag: temperatures with an offset, gauge pressures.  *)
(***************************************************************************)
is_temperature(u) == has_same_base(u.base, K) /\ e_flag(u)

\* biasTable at the integer part of the multiplier, for whole multipliers
\* and the one of 27 and a fraction that is in use.
Bias(multiplier) ==
  IF multiplier = 14 THEN 121
  ELSE IF multiplier = 25 THEN 150
  ELSE IF multiplier = Rational(277778, 10000) THEN Rational(377778, 10000)
  ELSE 0

ToCelsius(val, u) ==
  IF u = degF THEN ((val -- 32) ** 5) // 9
  ELSE (val ** u.multiplier) ++ Bias(u.multiplier)

\* Mutant: the division comes before the bias.
FromCelsiusBiasLast(val, u) ==
  IF u = degF THEN ((val ** 9) // 5) ++ 32
  ELSE (val // u.multiplier) -- Bias(u.multiplier)

FromCelsius(val, u) ==
  IF u = degF THEN ((val ** 9) // 5) ++ 32
  ELSE (val -- Bias(u.multiplier)) // u.multiplier

KelvinOffset == Rational(27315, 100)

convertTemperature(val, start, result) ==
  LET kelvins == IF is_temperature(start)
                 THEN ToCelsius(val, start) ++ KelvinOffset
                 ELSE val ** start.multiplier
  IN IF is_temperature(result) THEN FromCelsius(kelvins -- KelvinOffset, result)
     ELSE kelvins // result.multiplier

\* basis is NaN when the caller gives none.
convertFlaggedUnits(val, start, result, basis) ==
  IF is_temperature(start) \/ is_temperature(result)
  THEN convertTemperature(val, start, result)
  ELSE IF ~has_same_base(start.base, Pa) THEN NaN
  ELSE IF e_flag(start) = e_flag(result) THEN Scaled(val, start, result)
  ELSE IF e_flag(start)
       THEN IF basis = NaN THEN ((val ** start.multiplier) ++ atm) // result.multiplier
            ELSE Scaled(val ++ basis, start, result)
  ELSE IF basis = NaN THEN ((val ** start.multiplier) -- atm) // result.multiplier
       ELSE Scaled(val, start, result) -- basis

(***************************************************************************)
(* Counting units: a power of 2 pi between radians and counts, of the      *)
(* Avogadro number between moles and counts.                               *)
(***************************************************************************)
IntegerPower(x, n) ==
  IF n < 0 THEN 1 // PowerMod[<<x, -n>>] ELSE PowerMod[<<x, n>>]

\* Mutant: only units without the power are given it.
ReplacesForth(from, to, b, c) ==
  from.exp[b] = 0 /\ from.exp[c] \in {0, to.exp[b]}

\* One side has no power of b, and the other's is the power of c here.
Replaces(from, to, b, c) ==
  \/ from.exp[b] = 0 /\ from.exp[c] \in {0, to.exp[b]}
  \/ to.exp[b] = 0 /\ to.exp[c] \in {0, from.exp[b]}

convertCountingUnits(val, start, result) ==
  LET from == start.base
      to == result.base
      Change(b) == to.exp[b] - from.exp[b]
  IN IF /\ Change("mole") = 0 /\ Change("radian") = 0
        /\ 0 \in {from.exp["count"], to.exp["count"]}
     THEN Scaled(val, start, result)
     ELSE IF Change("mole") = 0 /\ Replaces(from, to, "radian", "count")
     THEN IF Change("radian") \notin -2..2 THEN NaN
          ELSE Scaled(val ** IntegerPower((2 * Pi) % Prime, Change("radian")),
                      start, result)
     ELSE IF Change("radian") = 0 /\ Replaces(from, to, "mole", "count")
     THEN IF Change("mole") \notin -1..1 THEN NaN
          ELSE Scaled(val ** IntegerPower(Avogadro, -Change("mole")),
                      start, result)
     ELSE NaN

(***************************************************************************)
(* The last resorts: volume and energy of gas, weight and mass, kilo.      *)
(***************************************************************************)
extraValidConversions(val, start, result) ==
  IF has_same_base(start.base, CubicMeter) /\ has_same_base(result.base, J)
  THEN Scaled(val ** scm, start, result)
  ELSE IF has_same_base(start.base, J) /\ has_same_base(result.base, CubicMeter)
  THEN Scaled(val // scm, start, result)
  ELSE NaN

WeightToMass(start, result) ==
  /\ start.base.exp["kilogram"] = result.base.exp["kilogram"]
  /\ has_same_base(Divides(start.base, result.base), Acceleration)

\* asKg and asKm: what convert gives with kg or km in the place of start.
otherUsefulConversions(val, start, result, asKg, asKm) ==
  IF WeightToMass(start, result) THEN Scaled(val // standard_gravity, start, result)
  ELSE IF WeightToMass(result, start)
  THEN Scaled(val ** standard_gravity, start, result)
  ELSE IF start = kilo /\ has_same_base(result.base, kg.base) THEN asKg
  ELSE IF start = kilo /\ has_same_base(result.base, km.base) THEN asKm
  ELSE NaN

(***************************************************************************)
(* Per-unit values.                                                        *)
(***************************************************************************)
generate_base(u, basePower, baseVoltage) ==
  IF has_same_base(u, W) THEN basePower
  ELSE IF has_same_base(u, V) THEN baseVoltage
  ELSE IF has_same_base(u, A) THEN basePower // baseVoltage
  ELSE IF has_same_base(u, ohm) THEN (baseVoltage ** baseVoltage) // basePower
  ELSE IF has_same_base(u, S) THEN basePower // (baseVoltage ** baseVoltage)
  ELSE NaN

assumedBase(start, result) ==
  IF puHz \in {start, result} THEN 60
  ELSE IF puMW \in {start, result} THEN 100
  ELSE IF mach \in {start, result} THEN Rational(34125, 100)
  ELSE NaN

\* Mutant: the current is taken for the inverse of the power.
knownConversionsInverted(val, start, result) ==
  LET Among(u, v) == has_same_base(start, u) /\ has_same_base(result, v)
  IN IF \E u, v \in {A, W, ohm} : u # v /\ Among(u, v) THEN 1 // val ELSE NaN

\* With a voltage of 1, power is current, and both are the inverse of the
\* resistance.  The multipliers are not looked at.
knownConversions(val, start, result) ==
  LET Among(u, v) == has_same_base(start, u) /\ has_same_base(result, v)
  IN IF Among(ohm, W) \/ Among(ohm, A) \/ Among(A, ohm) \/ Among(W, ohm)
     THEN 1 // val
     ELSE IF Among(A, W) \/ Among(W, A) THEN val
     ELSE NaN

(***************************************************************************)
(* convert with a base value, with two, and with none.  Where one of the   *)
(* first two calls the last, it is Plain.                                  *)
(***************************************************************************)
BetweenPerUnit(val, start, result, baseValue) ==
  IF has_same_base(start.base, result.base) \/ pu \in {start, result}
  THEN LET absolute == IF per_unit(start) THEN val ** baseValue ELSE val
           scaled == Scaled(absolute, start, result)
       IN IF per_unit(result) THEN scaled // baseValue ELSE scaled
  ELSE NaN

Inverts(start, result) == has_same_base(start.base, Inv(result.base))

\* What is left to try when the units differ in more than their multipliers
\* and neither is an equation.
ConvertDistinct(val, start, result, asKg, asKm) ==
  LET known == knownConversions(val, start.base, result.base)
      counted == convertCountingUnits(val, start, result)
      extra == extraValidConversions(val, start, result)
      bothPerUnit == per_unit(start) /\ per_unit(result)
      assumed == assumedBase(start, result)
  IN IF bothPerUnit /\ pu \in {start, result} THEN val
     ELSE IF bothPerUnit /\ IsNumber(known) THEN known
     ELSE IF per_unit(start) # per_unit(result)
     THEN IF IsNumber(assumed) THEN BetweenPerUnit(val, start, result, assumed) ELSE NaN
     ELSE IF has_same_base(start.base, result.base) THEN Scaled(val, start, result)
     ELSE IF equivalent_non_counting(start.base, result.base) /\ IsNumber(counted)
     THEN counted
     ELSE IF Inverts(start, result)
     THEN 1 // ((val ** start.multiplier) ** result.multiplier)
     ELSE IF (e_flag(start) \/ e_flag(result)) /\ IsNumber(extra) THEN extra
     ELSE otherUsefulConversions(val, start, result, asKg, asKm)

ConvertVia(val, start, result, asKg, asKm) ==
  LET flagged == convertFlaggedUnits(val, start, result, NaN)
  IN IF start = result \/ is_default(start) \/ is_default(result) THEN val
     ELSE IF /\ e_flag(start) \/ e_flag(result)
             /\ has_same_base(start.base, result.base)
             /\ IsNumber(flagged)
     THEN flagged
     ELSE IF equation(start) \/ equation(result)
     THEN IF equivalent_non_counting(start.base, result.base)
          THEN convert_value_to_equnit(
                 Scaled(convert_equnit_to_value(val, start.base), start, result),
                 result.base)
          ELSE NaN
     ELSE IF start.base = result.base THEN Scaled(val, start, result)
     ELSE ConvertDistinct(val, start, result, asKg, asKm)

convert(val, start, result) ==
  LET From(u) == ConvertVia(val, u, result, NaN, NaN)
  IN ConvertVia(val, start, result, From(kg), From(km))

convert_with_base(val, start, result, baseValue) ==
  LET flagged == convertFlaggedUnits(val, start, result, baseValue)
  IN IF start = result \/ is_default(start) \/ is_default(result) THEN val
     ELSE IF start.base = result.base THEN Scaled(val, start, result)
     ELSE IF per_unit(start) # per_unit(result)
     THEN BetweenPerUnit(val, start, result, baseValue)
     ELSE IF /\ e_flag(start) \/ e_flag(result)
             /\ has_same_base(start.base, result.base)
             /\ IsNumber(flagged)
     THEN flagged
     ELSE convert(val, start, result)

\* Both per unit and of no quantity with a known base: the two bases are
\* the one that val is in and the one wanted.
BetweenBases(val, start, result, basePower, baseVoltage) ==
  IF start = result THEN (val ** basePower) // baseVoltage
  ELSE Scaled((val ** basePower) // baseVoltage, start, result)

convert_with_bases(val, start, result, basePower, baseVoltage) ==
  LET Of(u) == generate_base(u.base, basePower, baseVoltage)
      TimesPu(u) == unit(u.multiplier, Times(u.base, pu.base))
  IN IF is_default(start) \/ is_default(result) THEN val
     ELSE IF per_unit(start) = per_unit(result)
     THEN IF /\ Of(start) = NaN /\ per_unit(start)
             /\ start = result \/ has_same_base(start.base, result.base)
          THEN BetweenBases(val, start, result, basePower, baseVoltage)
          ELSE convert(val, start, result)
     ELSE IF has_same_base(start.base, result.base)
     THEN BetweenPerUnit(val, start, result, Of(result))
     ELSE IF result = pu THEN (val // Of(start)) ** start.multiplier
     ELSE IF per_unit(result)
     THEN convert(val // Of(start), TimesPu(start), result) // result.multiplier
     ELSE IF start = pu THEN (val ** Of(result)) ** start.multiplier
     ELSE (convert(val, start, TimesPu(result)) ** Of(result)) ** start.multiplier
=============================================================================
