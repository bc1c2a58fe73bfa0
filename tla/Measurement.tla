----------------------------- MODULE Measurement -----------------------------
(***************************************************************************)
(* measurement (units/units.hpp): a value and its unit, which a client     *)
(* converts from unit to unit.  convert_to passes no base value; a client  *)
(* that has one or two calls convert itself, with value and unit.          *)
(* A conversion that is not possible leaves NaN, and nothing brings a      *)
(* number back: a chain ends there.                                        *)
(***************************************************************************)
EXTENDS Conversion

CONSTANTS
  Unit,             \* the units a client may name
  Value,            \* the values it may begin with
  BasePower,        \* the base value it gives, the first of two
  BaseVoltage,      \* the second
  MaxConversions    \* bound on the length of a chain, for model checking

ASSUME MeasurementAssumption ==
         /\ Unit \subseteq [multiplier : Finite, base : UnitDataType]
         /\ \A u \in Unit : InFields(u.base)
         /\ Value \subseteq Finite
         /\ {BasePower, BaseVoltage} \subseteq Finite \ {0}
         /\ MaxConversions \in Nat

VARIABLES
  bases,         \* how many base values the client gives
  meas,          \* the measurement
  origin,        \* what the chain began with
  visited,       \* the units it went through
  based,         \* the units convert_to_base was called with
  conversions    \* its length

chainVars == <<bases, meas, origin, visited, based, conversions>>

measurement(value, units) == [value |-> value, units |-> units]

Convert(val, start, result) ==
  CASE bases = 0 -> convert(val, start, result)
    [] bases = 1 -> convert_with_base(val, start, result, BasePower)
    [] bases = 2 -> convert_with_bases(val, start, result, BasePower, BaseVoltage)

ChainInit == /\ bases \in 0..2
             /\ meas \in [value : Value, units : Unit]
             /\ origin = meas
             /\ visited = {meas.units}
             /\ based = {}
             /\ conversions = 0

Become(m) == /\ IsNumber(meas.value)
             /\ conversions < MaxConversions
             /\ meas' = m
             /\ visited' = visited \cup {m.units}
             /\ conversions' = conversions + 1
             /\ UNCHANGED <<bases, origin>>

convert_to(u) == /\ Become(measurement(Convert(meas.value, meas.units, u), u))
                 /\ UNCHANGED based

\* Mutant: as_unit(), the value taken into the multiplier.
AsUnit(m) == measurement(1, unit(m.value ** m.units.multiplier, m.units.base))

BaseOf(m) == measurement(m.value ** m.units.multiplier, unit(1, m.units.base))

convert_to_base == /\ Become(BaseOf(meas))
                   /\ based' = based \cup {meas.units}

ChainNext == (\E u \in Unit : convert_to(u)) \/ convert_to_base

ChainSpec == ChainInit /\ [][ChainNext]_chainVars

(***************************************************************************)
(* Properties.                                                             *)
(***************************************************************************)
\* A measurement is a number or NaN, in a unit the client named or in one
\* that convert_to_base made, with multiplier one.
ChainTypeOK == /\ meas.value \in Number
               /\ meas.units \in Unit \cup {unit(1, u.base) : u \in Unit}
               /\ origin \in [value : Value, units : Unit]
               /\ {origin.units, meas.units} \subseteq visited
               /\ based \subseteq visited
               /\ bases \in 0..2 /\ conversions \in 0..MaxConversions

\* Temperatures and gauge pressures have a zero of their own.
HasOffset(u) == e_flag(u) /\ \E quantity \in {K, Pa} : has_same_base(u.base, quantity)
CountsThings(u) == \E b \in Counting : u.base.exp[b] # 0
Wildcard(u) == is_default(u) \/ u = pu

\* With two bases, a per-unit quantity of no known base is rescaled from the
\* one base to the other, again and again if asked again; and the multiplier
\* on the other side of a change of quantity, or of the generic pu, counts
\* in one direction only.
Rescales(u, v) == /\ per_unit(u) /\ per_unit(v)
                  /\ generate_base(u.base, BasePower, BaseVoltage) = NaN
OneSided(u, v) == /\ per_unit(u) # per_unit(v)
                  /\ ~has_same_base(u.base, v.base)
                  /\ {u.multiplier, v.multiplier} # {1}

\* The units whose conversions lose nothing: a multiplier of zero, and the
\* two polynomials of a wind scale, are not undone.
Undone(u) == /\ u.multiplier # 0
             /\ ~(equation(u) /\ eq_type(u.base) \in {22, 23})

\* Converting back gives the value there was before, if the conversion back
\* is possible: offsets, equations, counting factors, inverses, weights,
\* assumed and given bases are undone by the rule that undoes them, although
\* each direction looks for its rule by itself.
RoundTrip ==
  [][convert_to(meas'.units) /\ IsNumber(meas'.value)
       => \/ Convert(meas'.value, meas'.units, meas.units) \in {meas.value, NaN}
          \/ bases = 2 /\ (Rescales(meas.units, meas'.units)
                           \/ OneSided(meas.units, meas'.units))]_chainVars

\* Whatever converts converts back, but for kilo, which is taken for a
\* kilogram or a kilometer by the rule that comes last and one way only.
Reversible ==
  [][convert_to(meas'.units) /\ IsNumber(meas'.value) /\ meas.units # kilo
       => IsNumber(Convert(meas'.value, meas'.units, meas.units))]_chainVars

\* Pairs of units which the rules treat by different conventions.
AtOdds(u, v) ==
  \* an inverse is taken of the values as they stand: an offset stays in,
  \* and so does the number of things in a mole or a turn
  \/ Inverts(u, v) /\ (HasOffset(u) \/ HasOffset(v)
                       \/ CountsThings(u) \/ CountsThings(v))
  \* an equation takes things, turns and moles for the same, and a per-unit
  \* value for the plain one
  \/ equation(u) /\ ~equation(v) /\ (CountsThings(v) \/ per_unit(v))
  \* an e_flag is taken for an offset before the equation is looked at,
  \* even where it is a part of the number of the equation
  \/ equation(u) /\ HasOffset(v)
  \* known conversions between per-unit quantities drop the multipliers
  \/ /\ per_unit(u) /\ per_unit(v) /\ u.multiplier # v.multiplier
     /\ ~equation(u) /\ ~equation(v)

\* The weight of what is a weight itself, but for things counted.  The rule
\* does not ask for a mass: from s^2/m to a number and on to m/s^2 it applies
\* twice, where the direct conversion takes the inverse.
WeighsTwice(units) ==
  \E u, v, w, z \in units : /\ WeightToMass(u, v) /\ WeightToMass(w, z)
                            /\ equivalent_non_counting(v.base, w.base)

\* Where a chain of conversions leads does not depend on the way: it is what
\* the first unit converts to directly, if it does.  The rules are tried in
\* an order, so a third unit may make other rules apply.
PathIndependent ==
  bases = 0 /\ IsNumber(meas.value)
    => \/ convert(origin.value, origin.units, meas.units) \in {meas.value, NaN}
       \/ \E u \in visited : Wildcard(u)
       \/ \E u, v \in visited : AtOdds(u, v)
       \/ WeighsTwice(visited)
       \/ \E u \in based : HasOffset(u) \/ equation(u)

SameQuantity(u, v) == /\ equivalent_non_counting(u.base, v.base)
                      /\ ~Wildcard(v)

\* An equation unit is related to other units of its quantity by its
\* equation (docs/user-guide/equation_units.rst).
EquationDecides ==
  bases = 0 /\ equation(meas.units) /\ IsNumber(meas.value)
    => \A v \in {w \in Unit : ~equation(w) /\ ~e_flag(w)
                               /\ SameQuantity(meas.units, w)} :
         convert(meas.value, meas.units, v)
           = Scaled(convert_equnit_to_value(meas.value, meas.units.base),
                    meas.units, v)
=============================================================================
