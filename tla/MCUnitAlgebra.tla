---------------------------- MODULE MCUnitAlgebra ----------------------------
(***************************************************************************)
(* UnitAlgebra for TLC: the second and the count, with the widths of their *)
(* fields in the 4-byte unit_data, four bits and two.                      *)
(***************************************************************************)
EXTENDS UnitAlgebra

MCHalf == [b \in Base |-> IF b = Second THEN 8 ELSE 2]

Exps(s, c) == [b \in Base |-> IF b = Second THEN s ELSE c]
MCUnit(s, c, flags) ==
  precise_unit("pos", [exp |-> Exps(s, c), flags |-> flags], {})

MCrootHertz == MCUnit(-5, 0, {"i_flag", "e_flag"})
MCnegative == precise_unit("neg", [exp |-> Exps(2, 0), flags |-> {"e_flag"}], {})

MCdefunit == MCUnit(0, 0, {"per_unit", "i_flag"})

MCOperand ==
  { MCUnit(1, 0, {}), MCUnit(3, 0, {"i_flag"}), MCUnit(-1, 1, {"per_unit"}),
    MCUnit(0, -1, {"equation"}), MCrootHertz, MCnegative, invalid, error,
    MCdefunit }
MCPower == -3..4
=============================================================================
