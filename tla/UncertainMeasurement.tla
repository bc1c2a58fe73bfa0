------------------------ MODULE UncertainMeasurement -------------------------
(***************************************************************************)
(* uncertain_measurement (units/units.hpp): a value, its uncertainty and a *)
(* unit, and the calculations of a client with it, beside the ones of the  *)
(* class measurement.  The operators propagate uncertainties by the root   *)
(* of the sum of squares, the simple_ functions by the sum.                *)
(*                                                                         *)
(* A client keeps to one of the two.  With the first the model holds       *)
(* uncertainties by their squares with the sign kept (x * |x|): products   *)
(* and comparisons of such squares are those of the numbers, and there is  *)
(* no root to take.                                                        *)
(***************************************************************************)
EXTENDS CustomUnits, Rationals

CONSTANTS
  Unit,          \* the units a client may convert to
  Operand,       \* the uncertain measurements it calculates with
  MaxCalls,      \* bound on the length of a calculation, for model checking
  \* OtherConversion(value, start, result): what convert makes of a value in
  \* units that it does not convert by a factor; not a number if it does not
  \* convert them (Conversion models its rules)
  OtherConversion(_, _, _)

ASSUME CallsAssumption == MaxCalls \in Nat

VARIABLES
  method,    \* "squares" or "simple"
  um,        \* the uncertain measurement
  plain,     \* what the class measurement makes of the last call
  straight,  \* whether its conversion, if any, multiplies by a factor
  calls      \* how many calls there were

vars == <<method, um, plain, straight, calls>>

(***************************************************************************)
(* Units.                                                                  *)
(***************************************************************************)
unit(multiplier, base) == [multiplier |-> multiplier, base |-> base]
UnitTimes(u, v) == unit(u.multiplier ** v.multiplier, Times(u.base, v.base))
UnitDivides(u, v) == unit(u.multiplier // v.multiplier, Divides(u.base, v.base))
UnitInv(u) == unit(Whole(1) // u.multiplier, Inv(u.base))
UnitPow(u, n) == unit(IntegerPower(u.multiplier, n), Pow(u.base, n))

UnitType == [multiplier : Positive, base : UnitDataType]
Numbered == [value : Fraction, uncertainty : Fraction, units : UnitType]

\* The measurements of the model are numbers.
ASSUME OperandAssumption == Unit \subseteq UnitType /\ Operand \subseteq Numbered

(***************************************************************************)
(* convert.  It multiplies by a factor between units of the same base that *)
(* are no equations and neither per unit nor of a scale with a zero of its *)
(* own; a unit stays one when it is multiplied by another such unit.  What *)
(* it does with others is left open.                                       *)
(***************************************************************************)
SameBase(u, v) == u.base.exp = v.base.exp
Plain(u) == u.base.flags \subseteq {"i_flag"}
Proportional(start, result) ==
  \/ start = result
  \/ SameBase(start, result) /\ Plain(start) /\ Plain(result)

convert(val, start, result) ==
  IF start = result THEN val
  ELSE IF Proportional(start, result)
       THEN (val ** start.multiplier) // result.multiplier
  ELSE LET other == OtherConversion(val, start, result)
       IN IF other \in Fraction THEN other ELSE NaN

\* convert with no value: that of one.
factor(start, result) == convert(Whole(1), start, result)

(***************************************************************************)
(* measurement.                                                            *)
(***************************************************************************)
measurement(value, units) == [value |-> value, units |-> units]
value_as(m, u) == IF m.units = u THEN m.value ELSE convert(m.value, m.units, u)

MeasTimes(m, n) == measurement(m.value ** n.value, UnitTimes(m.units, n.units))
MeasDivides(m, n) == measurement(m.value // n.value, UnitDivides(m.units, n.units))
MeasPlus(m, n) == measurement(m.value ++ value_as(n, m.units), m.units)
MeasMinus(m, n) == measurement(m.value -- value_as(n, m.units), m.units)
MeasPow(m, n) == measurement(IntegerPower(m.value, n), UnitPow(m.units, n))
MeasNegative(m) == measurement(Minus(m.value), m.units)
MeasInverse(m) == measurement(Whole(1) // m.value, UnitInv(m.units))
MeasConvert(m, u) == measurement(convert(m.value, m.units, u), u)

(***************************************************************************)
(* uncertain_measurement.                                                  *)
(***************************************************************************)
uncertain(value, uncertainty, units) ==
  [value |-> value, uncertainty |-> uncertainty, units |-> units]
AsMeasurement(u) == measurement(u.value, u.units)
Certain(m) == uncertain(m.value, Zero, m.units)

Squares == method = "squares"
Spread(x) == IF Squares THEN x ** Absolute(x) ELSE x
Scaled(uncertainty, x) == uncertainty ** Spread(x)
\* The root of the sum of squares has no sign; the simple sum has.
Combined(x, y) == IF Squares THEN Absolute(x) ++ Absolute(y) ELSE x ++ y
relative(u) == u.uncertainty // Spread(u.value)

WithTolerance(nval, ntol, units) == uncertain(nval, Scaled(ntol, nval), units)
\* Mutant: the tolerance is taken of the first factor.
ProductOfFirst(u, v) ==
  uncertain(u.value ** v.value, Scaled(Combined(relative(u), relative(v)), u.value),
            UnitTimes(u.units, v.units))
Product(u, v) ==
  WithTolerance(u.value ** v.value, Combined(relative(u), relative(v)),
                UnitTimes(u.units, v.units))
Quotient(u, v) ==
  WithTolerance(u.value // v.value, Combined(relative(u), relative(v)),
                UnitDivides(u.units, v.units))

\* Mutant: the uncertainty is added as it is.
SumUnscaled(u, v) ==
  uncertain(u.value ++ (factor(v.units, u.units) ** v.value),
            Combined(u.uncertainty, v.uncertainty), u.units)
Sum(u, v) ==
  LET cval == factor(v.units, u.units)
  IN uncertain(u.value ++ (cval ** v.value),
               Combined(u.uncertainty, Scaled(v.uncertainty, cval)), u.units)
Difference(u, v) ==
  LET cval == factor(v.units, u.units)
  IN uncertain(u.value -- (cval ** v.value),
               Combined(u.uncertainty, Scaled(v.uncertainty, cval)), u.units)

\* With a measurement on the right, and on the left.
TimesMeasurement(u, m) ==
  uncertain(u.value ** m.value, Scaled(u.uncertainty, m.value),
            UnitTimes(u.units, m.units))
DividesMeasurement(u, m) ==
  uncertain(u.value // m.value, u.uncertainty // Spread(m.value),
            UnitDivides(u.units, m.units))
PlusMeasurement(u, m) ==
  uncertain(u.value ++ value_as(m, u.units), u.uncertainty, u.units)
MinusMeasurement(u, m) ==
  uncertain(u.value -- value_as(m, u.units), u.uncertainty, u.units)

\* Mutant: the uncertainty stays in its unit.
MeasurementPlusUnscaled(m, u) ==
  uncertain(m.value ++ (factor(u.units, m.units) ** u.value), u.uncertainty, m.units)
MeasurementPlus(m, u) ==
  LET cval == factor(u.units, m.units)
  IN uncertain(m.value ++ (cval ** u.value), Scaled(u.uncertainty, cval), m.units)
MeasurementMinus(m, u) ==
  LET cval == factor(u.units, m.units)
  IN uncertain(m.value -- (cval ** u.value), Scaled(u.uncertainty, cval), m.units)
MeasurementDivides(m, u) ==
  WithTolerance(m.value // u.value, relative(u), UnitDivides(m.units, u.units))

Negative(u) == [u EXCEPT !.value = Minus(@)]
Inverse(u) == WithTolerance(Whole(1) // u.value, relative(u), UnitInv(u.units))
RaisedTo(u, n) ==
  LET nval == IntegerPower(u.value, n)
  IN uncertain(nval, Scaled(Scaled(relative(u), nval), Whole(Abs(n))), UnitPow(u.units, n))

\* Mutant: the factor of the conversion back.
convert_to_back(u, units) ==
  LET cval == factor(units, u.units)
  IN uncertain(cval ** u.value, Scaled(u.uncertainty, cval), units)
convert_to(u, units) ==
  LET cval == factor(u.units, units)
  IN uncertain(cval ** u.value, Scaled(u.uncertainty, cval), units)

(***************************************************************************)
(* Comparisons.  Two uncertain measurements are compared by their simple   *)
(* difference, so only where that is the method.                           *)
(***************************************************************************)
EqualsMeasurement(u, m) ==
  LET distance == Spread(value_as(m, u.units) -- u.value)
  IN IF u.uncertainty = Zero THEN distance = Zero
     ELSE AtMost(Minus(u.uncertainty), distance) /\ AtMost(distance, u.uncertainty)
GreaterThanMeasurement(u, m) == Less(value_as(m, u.units), u.value)
LessThanMeasurement(u, m) == Less(u.value, value_as(m, u.units))
AtLeastMeasurement(u, m) ==
  AtMost(value_as(m, u.units), u.value) \/ EqualsMeasurement(u, m)
NotMoreThanMeasurement(u, m) ==
  AtMost(u.value, value_as(m, u.units)) \/ EqualsMeasurement(u, m)

Equals(u, v) == EqualsMeasurement(Difference(u, v), measurement(Zero, u.units))
GreaterThan(u, v) == Less(value_as(AsMeasurement(v), u.units), u.value)
LessThan(u, v) == Less(u.value, value_as(AsMeasurement(v), u.units))
AtLeast(u, v) == AtMost(Zero, Difference(u, v).value) \/ Equals(u, v)
NotMore(u, v) == AtMost(Difference(u, v).value, Zero) \/ Equals(u, v)

\* With the measurement on the left the numbers are compared as they are,
\* whatever their units, unless they are compared for equality.
MeasurementGreaterThan(m, u) == Less(u.value, m.value)
MeasurementLessThan(m, u) == Less(m.value, u.value)
MeasurementAtLeast(m, u) == MeasurementGreaterThan(m, u) \/ EqualsMeasurement(u, m)
MeasurementNotMore(m, u) == MeasurementLessThan(m, u) \/ EqualsMeasurement(u, m)

(***************************************************************************)
(* The client.                                                             *)
(***************************************************************************)
Operands == {[v EXCEPT !.uncertainty = Spread(@)] : v \in Operand}
Measurements == {AsMeasurement(v) : v \in Operand}
meas == AsMeasurement(um)

Init ==
  /\ method \in {"squares", "simple"}
  /\ um \in Operands
  /\ plain = meas
  /\ straight = TRUE
  /\ calls = 0

\* A call without a conversion, and with one.
Call(result, of_measurement) ==
  /\ calls < MaxCalls /\ IsNumber(um.value)
  /\ um' = result
  /\ plain' = of_measurement
  /\ straight' = TRUE
  /\ calls' = calls + 1
  /\ UNCHANGED method

ConvertingCall(start, target, result, of_measurement) ==
  /\ calls < MaxCalls /\ IsNumber(um.value)
  /\ um' = result
  /\ plain' = of_measurement
  /\ straight' = Proportional(start, target)
  /\ calls' = calls + 1
  /\ UNCHANGED method

\* operator*, operator/, simple_product and simple_divide.
Multiply(v) == Call(Product(um, v), MeasTimes(meas, AsMeasurement(v)))
Divide(v) == Call(Quotient(um, v), MeasDivides(meas, AsMeasurement(v)))

\* operator+, operator-, simple_add and simple_subtract.
Add(v) ==
  ConvertingCall(v.units, um.units, Sum(um, v), MeasPlus(meas, AsMeasurement(v)))
Subtract(v) ==
  ConvertingCall(v.units, um.units, Difference(um, v), MeasMinus(meas, AsMeasurement(v)))

\* The operators with a measurement.
MultiplyMeasurement(m) == Call(TimesMeasurement(um, m), MeasTimes(meas, m))
DivideMeasurement(m) == Call(DividesMeasurement(um, m), MeasDivides(meas, m))
AddMeasurement(m) ==
  ConvertingCall(m.units, um.units, PlusMeasurement(um, m), MeasPlus(meas, m))
SubtractMeasurement(m) ==
  ConvertingCall(m.units, um.units, MinusMeasurement(um, m), MeasMinus(meas, m))
AddToMeasurement(m) ==
  ConvertingCall(um.units, m.units, MeasurementPlus(m, um), MeasPlus(m, meas))
SubtractFromMeasurement(m) ==
  ConvertingCall(um.units, m.units, MeasurementMinus(m, um), MeasMinus(m, meas))
DivideIntoMeasurement(m) == Call(MeasurementDivides(m, um), MeasDivides(m, meas))

\* The unary minus, 1 / um, pow and convert_to.
Negate == Call(Negative(um), MeasNegative(meas))
Invert == Call(Inverse(um), MeasInverse(meas))
RaiseTo(n) == Call(RaisedTo(um, n), MeasPow(meas, n))
Convert(u) == ConvertingCall(um.units, u, convert_to(um, u), MeasConvert(meas, u))

Next ==
  \/ \E v \in Operands : Multiply(v) \/ Divide(v) \/ Add(v) \/ Subtract(v)
  \/ \E m \in Measurements :
       \/ MultiplyMeasurement(m) \/ DivideMeasurement(m)
       \/ AddMeasurement(m) \/ SubtractMeasurement(m)
       \/ AddToMeasurement(m) \/ SubtractFromMeasurement(m)
       \/ DivideIntoMeasurement(m)
  \/ Negate \/ Invert
  \/ \E n \in {-1, 2} : RaiseTo(n)
  \/ \E u \in Unit : Convert(u)

Spec == Init /\ [][Next]_vars

(***************************************************************************)
(* Properties.                                                             *)
(***************************************************************************)
\* The value of an uncertain measurement is the value that the class
\* measurement calculates, although the one converts by a factor and the
\* other by the value: as long as a factor converts, for which see
\* ConvertsAsMeasurement.
CalculatesAsMeasurement == straight => meas = plain

\* convert_to converts to another unit (README.md of the library): no call of
\* it gives a value other than the one that the class measurement converts to.
ConvertsAsMeasurement == [][\A u \in Unit : Convert(u) => meas' = plain']_vars

\* The operators with a measurement calculate what those with an uncertain
\* measurement of uncertainty zero do (the comment on operator*), up to the
\* sign of the uncertainty.
Agree(u, v) == /\ AsMeasurement(u) = AsMeasurement(v)
               /\ Absolute(u.uncertainty) = Absolute(v.uncertainty)

MultipliesAsCertain(m, u) ==
  /\ Agree(TimesMeasurement(um, m), Product(um, u))
  /\ Agree(DividesMeasurement(um, m), Quotient(um, u))
  /\ Agree(MeasurementDivides(m, um), Quotient(u, um))

AddsAsCertain(m, u) ==
  /\ Agree(PlusMeasurement(um, m), Sum(um, u))
  /\ Agree(MinusMeasurement(um, m), Difference(um, u))
  /\ Agree(MeasurementPlus(m, um), Sum(u, um))
  /\ Agree(MeasurementMinus(m, um), Difference(u, um))

\* They also compare so, and on the left of a comparison for equality.
ComparesAsCertain(m, u) ==
  /\ GreaterThanMeasurement(um, m) <=> GreaterThan(um, u)
  /\ LessThanMeasurement(um, m) <=> LessThan(um, u)
  /\ ~Squares => /\ EqualsMeasurement(um, m) <=> Equals(um, u)
                 /\ EqualsMeasurement(um, m) <=> Equals(u, um)
                 /\ AtLeastMeasurement(um, m) <=> AtLeast(um, u)
                 /\ NotMoreThanMeasurement(um, m) <=> NotMore(um, u)

\* On the left of any other, only in the unit of the other side, and unless
\* its uncertainty has become negative, which the code does not prevent.
ComparesAsCertainOnTheLeft(m, u) ==
  /\ MeasurementGreaterThan(m, um) <=> GreaterThan(u, um)
  /\ MeasurementLessThan(m, um) <=> LessThan(u, um)
  /\ ~Squares /\ AtMost(Zero, um.uncertainty) =>
       /\ MeasurementAtLeast(m, um) <=> AtLeast(u, um)
       /\ MeasurementNotMore(m, um) <=> NotMore(u, um)

MeasurementIsCertain ==
  IsNumber(um.value) => \A m \in Measurements :
    /\ Zero \notin {um.value, m.value} => MultipliesAsCertain(m, Certain(m))
    /\ Proportional(m.units, um.units) =>
         AddsAsCertain(m, Certain(m)) /\ ComparesAsCertain(m, Certain(m))
    /\ m.units = um.units => ComparesAsCertainOnTheLeft(m, Certain(m))

\* The unit an operand is given in does not matter to a calculation or a
\* comparison, and neither does the side that a comparison is made from, as
\* long as convert multiplies by factors.
UnitsDoNotMatter ==
  \A v \in Operands, u \in Unit :
    IsNumber(um.value) /\ Proportional(v.units, u) =>
      LET w == convert_to(v, u)
      IN /\ Plain(um.units) =>
              /\ convert_to(Product(um, w), UnitTimes(um.units, v.units)) = Product(um, v)
              /\ convert_to(Quotient(um, w), UnitDivides(um.units, v.units)) = Quotient(um, v)
         /\ Proportional(v.units, um.units) =>
              /\ Sum(um, w) = Sum(um, v)
              /\ Difference(um, w) = Difference(um, v)
              /\ ~Squares =>
                   /\ Equals(um, w) <=> Equals(v, um)
                   /\ AtLeast(um, w) <=> NotMore(v, um)
                   /\ GreaterThan(um, w) <=> LessThan(v, um)
                   /\ AtLeast(um, w) <=> ~LessThan(um, w) \/ Equals(um, w)

\* The order in which measurements are put together does not matter.  (Two
\* e_flags cancel in a quotient but not in a product: UnitAlgebra.)
OrderDoesNotMatter ==
  IsNumber(um.value) =>
    \A v, w \in Operands :
      /\ Product(Product(um, v), w) = Product(um, Product(v, w))
      /\ "e_flag" \notin v.units.base.flags =>
           Quotient(Quotient(um, v), w) = Quotient(um, Product(v, w))
      /\ Proportional(v.units, um.units) /\ Proportional(w.units, um.units) =>
           /\ Sum(Sum(um, v), w) = Sum(um, Sum(v, w))
           /\ Difference(Difference(um, v), w) = Difference(um, Sum(v, w))
=============================================================================
