----------------------------- MODULE MCUnitParser -----------------------------
(***************************************************************************)
(* UnitParser for TLC: a client that passes the default flags, one that    *)
(* forbids default units (as default_unit does), and ones that set a       *)
(* limit themselves.                                                       *)
(***************************************************************************)
EXTENDS UnitParser

MCGiven == { NoFlags, Afresh,
             [NoFlags EXCEPT !.commodity_check = 1, !.recursion = 1],
             [NoFlags EXCEPT !.partition = 4, !.per_operator = 4,
                                   !.no_of_operator = TRUE],
             [Afresh EXCEPT !.recursion = 4, !.commodity_check = 4] }
=============================================================================
