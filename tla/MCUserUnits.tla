----------------------------- MODULE MCUserUnits -----------------------------
(***************************************************************************)
(* UserUnits for TLC: a string of the library ("m", which reads as the     *)
(* metre) and strings it does not know, a precise unit for the metre, two  *)
(* that a cast to `unit` does not tell apart, and a file.                  *)
(***************************************************************************)
EXTENDS UserUnitsHistory

CONSTANTS m, idgit, meter, clucks, cluckseggs, uMeter, uClucks

MCName == {m, idgit}
MCUnitValue == {meter, clucks, cluckseggs}
MCUnit == {uMeter, uClucks}
MCcast == [p \in MCUnitValue |-> IF p = meter THEN uMeter ELSE uClucks]
MCBuiltin == [n \in MCName |-> IF n = m THEN meter ELSE NoUnit]
MCBuiltinName == [u \in MCUnit |-> IF u = uMeter THEN m ELSE NoName]

Line(name, kind, uses, unit) ==
  [name |-> name, kind |-> kind, uses |-> uses, unit |-> unit]

\* idgit == <clucks>;  m => idgit;  a malformed line;  idgit <= m
MCFile == << Line(idgit, "both", NoName, clucks), Line(m, "in", idgit, NoUnit),
             Line(NoName, "both", NoName, NoUnit), Line(idgit, "out", m, NoUnit) >>
=============================================================================
