----------------------------- MODULE PreciseUnit -----------------------------
(***************************************************************************)
(* precise_unit (units/units_decl.hpp): a multiplier, a unit_data and a    *)
(* commodity code.  Of the multiplier only its class is kept: a positive   *)
(* number, a negative number or NaN; zero and the infinities are left out. *)
(* A commodity code is the set of its one bits, so 0 is {} and ~c is       *)
(* CommodityBits \ c.                                                      *)
(***************************************************************************)
EXTENDS UnitData

CONSTANT CommodityBits

Multiplier == {"pos", "neg", "nan"}
PreciseUnitType ==
  [mult : Multiplier, base : UnitDataType, commodity : SUBSET CommodityBits]

precise_unit(mult, base, commodity) ==
  [mult |-> mult, base |-> base, commodity |-> commodity]

one == precise_unit("pos", Dimensionless, {})
invalid == precise_unit("nan", ErrorData, {})
error == precise_unit("pos", ErrorData, {})

(***************************************************************************)
(* Multipliers.                                                            *)
(***************************************************************************)
TimesMult(m, n) == IF "nan" \in {m, n} THEN "nan"
                   ELSE IF m = n THEN "pos" ELSE "neg"

EvenIsPositive(m, power) == IF IsEven(power) THEN "pos" ELSE m   \* mutant

\* detail::power_const: the zeroth power of anything, NaN too, is 1.
power_const(m, power) ==
  IF power = 0 THEN "pos"
  ELSE IF m = "neg" /\ IsEven(power) THEN "pos" ELSE m

\* Odd roots of a negative number go to cbrt for 3 and to pow(), which
\* gives NaN, from 5 up.
numericalRoot(m, power) ==
  IF power = 0 THEN "pos"
  ELSE IF m = "neg" /\ Abs(power) \notin {1, 3} THEN "nan" ELSE m

(***************************************************************************)
(* Commodity codes.                                                        *)
(***************************************************************************)
InvCommodity(c) == IF c = {} THEN {} ELSE CommodityBits \ c

DividesCommodity(c, d) == IF c = {} THEN InvCommodity(d) ELSE c \ d

(***************************************************************************)
(* The operators of precise_unit, and the free functions on it.            *)
(***************************************************************************)
UnitTimes(u, v) ==
  precise_unit(TimesMult(u.mult, v.mult), Times(u.base, v.base),
               u.commodity \cup v.commodity)

UnitDivides(u, v) ==
  precise_unit(TimesMult(u.mult, v.mult), Divides(u.base, v.base),
               DividesCommodity(u.commodity, v.commodity))

UnitInv(u) ==
  precise_unit(u.mult, Inv(u.base), InvCommodity(u.commodity))

UnitPow(u, power) ==
  precise_unit(power_const(u.mult, power), Pow(u.base, power), u.commodity)

UnitRoot(u, power) ==
  IF power = 0 THEN one
  ELSE IF u.mult = "neg" /\ IsEven(power) THEN invalid
  ELSE precise_unit(numericalRoot(u.mult, power), Root(u.base, power), {})

UnitWithFlags(u, flags) == [u EXCEPT !.base.flags = flags]

IsNaN(u) == u.mult = "nan"
=============================================================================
