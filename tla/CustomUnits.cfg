SPECIFICATION CustomSpec
CONSTANTS
  Base = {"meter", "second", "kilogram", "ampere", "candela", "kelvin", "mole", "radian", "currency", "count"}
  Second = "second"
  Half <- MCHalf
  CustomPowers <- MCCustomPowers
  CountPowers <- MCCountPowers
INVARIANTS
  TypeOK
  NumberIsKept
  InverseIsTold
