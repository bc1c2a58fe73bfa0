----------------------- MODULE MCUncertainMeasurement ------------------------
(***************************************************************************)
(* UncertainMeasurement for TLC: the widths of the 4-byte unit_data,       *)
(* lengths in meters and halves of them, temperatures, and a mass that     *)
(* does not convert to them.                                               *)
(***************************************************************************)
EXTENDS UncertainMeasurement

MCHalf == [b \in Base |->
             CASE b \in {"meter", "second"} -> 8
               [] b \in {"mole", "candela", "currency", "count"} -> 2
               [] OTHER -> 4]

m == unit(Whole(1), dim([meter |-> 1], {}))
half == unit(Rational(1, 2), m.base)   \* of a meter
K == unit(Whole(1), dim([kelvin |-> 1], {}))
degC == unit(Whole(1), dim([kelvin |-> 1], {"e_flag"}))
kg == unit(Whole(1), dim([kilogram |-> 1], {}))
MCUnit == {m, half, K, degC}

MCOperand == {uncertain(Whole(2), Rational(1, 2), m), uncertain(Whole(-3), Whole(1), half),
              uncertain(Zero, Whole(1), m), uncertain(Whole(1), Zero, degC),
              uncertain(Whole(4), Whole(1), K), uncertain(Whole(2), Whole(1), kg)}

\* The conversions of these by no factor are those between kelvins and degrees,
\* whose zero is put at three kelvins.
MCConversion(val, start, result) ==
  IF {start, result} = {K, degC}
  THEN val ++ Whole(IF start = degC THEN 3 ELSE -3)
  ELSE NaN
=============================================================================
