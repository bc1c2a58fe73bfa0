---------------------------- MODULE MCMeasurement ----------------------------
(***************************************************************************)
(* Measurement for TLC: the widths of the 4-byte unit_data, and units that *)
(* between them reach every rule of the conversions.                       *)
(***************************************************************************)
EXTENDS Measurement

MCHalf == [b \in Base |->
             CASE b \in {"meter", "second"} -> 8
               [] b \in {"mole", "candela", "currency", "count"} -> 2
               [] OTHER -> 4]

Plain(powers) == unit(1, dim(powers, {}))
Times_(u, v) == unit(u.multiplier ** v.multiplier, Times(u.base, v.base))
Of(n, d, u) == unit(u.multiplier ** Rational(n, d), u.base)
SI(base) == unit(1, base)

meter == Plain([meter |-> 1])
newton == Plain([kilogram |-> 1, meter |-> 1, second |-> -2])
hertz == Plain([second |-> -1])
velocity == Plain([meter |-> 1, second |-> -1])
density == Plain([kilogram |-> 1, meter |-> -3])
rad == Plain([radian |-> 1])
degree == unit(Pi // 180, rad.base)
celsius == SI(EFlagged(K))
psi == Of(6894757, 1000, SI(Pa))
scf == unit(scm // Rational(353146667, 10000000), EFlagged(J))

EquationUnit(n) == SI(equation_unit(n))
bel == EquationUnit(2)
dB == EquationUnit(3)

Lengths == {meter, Of(3048, 10000, meter), kilo}
Weights == {kg, Of(45359237, 100000000, kg), newton, Of(4448222, 1000000, newton),
            SI(Acceleration), SI(Inv(Acceleration))}
Energies == {SI(J), Plain([kilogram |-> 1, meter |-> 1]), scf,
             SI(CubicMeter), Of(1, 1000, SI(CubicMeter))}
Counts == {rad, degree, Plain([count |-> 1]), Of(12, 1, Plain([count |-> 1])),
           Plain([mole |-> 1]), Plain([mole |-> -1]), Plain(<<>>),
           Plain([count |-> 1, second |-> -1]), Times_(degree, hertz), hertz, puHz,
           Plain([second |-> 1])}
Velocities == {velocity, Plain([meter |-> -1, second |-> 1]), mach,
               Times_(EquationUnit(24), velocity)}
Temperatures == {SI(K), Of(5, 9, SI(K)), celsius, degF, Of(5, 4, celsius),
                 Of(14, 1, celsius), Plain([kelvin |-> -1])}
Pressures == {SI(Pa), psi, SI(EFlagged(Pa)), Times_(psi, SI(EFlagged(Dimensionless))),
              Of(2, 100000, Times_(dB, SI(Pa))), Of(2, 100000, Times_(bel, SI(Pa)))}
Levels == {bel, dB, EquationUnit(4), EquationUnit(10)}
Densities == {Of(1000, 1, Times_(EquationUnit(16), density)), density,
              Of(1000, 1, density)}
Power == {SI(W), Of(1000000, 1, SI(W)), SI(PerUnit(W)), puMW,
          SI(V), Of(1, 1000, SI(V)), SI(PerUnit(V)), SI(A), SI(PerUnit(A)),
          SI(ohm), SI(PerUnit(ohm)), SI(S), SI(PerUnit(S)),
          Times_(dB, SI(W)), Times_(bel, SI(W)), Times_(dB, SI(V)),
          Of(1, 1000, Times_(dB, SI(V)))}

MCUnit == Lengths \cup Weights \cup Energies \cup Counts \cup Velocities
          \cup Temperatures \cup Pressures \cup Levels \cup Densities
          \cup Power \cup {pu, defunit}

\* What the theorems suppose of the units.
ASSUME MCUnitsUndone == \A u \in MCUnit : Undone(u)
=============================================================================
