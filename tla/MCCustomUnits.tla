---------------------------- MODULE MCCustomUnits ----------------------------
(***************************************************************************)
(* CustomUnitUse for TLC: the widths of the 4-byte unit_data.              *)
(***************************************************************************)
EXTENDS CustomUnitUse

MCHalf == [b \in Base |->
             CASE b \in {"meter", "second"} -> 8
               [] b \in {"mole", "candela", "currency", "count"} -> 2
               [] OTHER -> 4]

AllPowers(meter, kg, second, currency) ==
  {p \in [{"meter", "kilogram", "second", "currency"} -> -2..3] :
     /\ p["meter"] \in meter /\ p["kilogram"] \in kg
     /\ p["second"] \in second /\ p["currency"] \in currency}

\* With them "the only valid operations [...] unit/s unit/m unit/m^2 unit/m^3
\* unit/kg" (unit_definitions.hpp).
MCCustomPowers ==
  {p \in AllPowers(0..3, 0..2, -2..1, {0}) : p["meter"] = 3 => p["kilogram"] = 0}
MCCountPowers == AllPowers(-2..3, -1..2, -1..2, -1..1)

\* What the theorems of ClientCalculations_proof assume.
ASSUME MCTold == FieldsHold /\ CustomPowers \subseteq ToldPowers
=============================================================================
