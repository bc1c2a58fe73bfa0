SPECIFICATION ChainSpec
CHECK_DEADLOCK FALSE
CONSTANTS
  Base = {"meter", "second", "kilogram", "ampere", "candela", "kelvin", "mole", "radian", "currency", "count"}
  Second = "second"
  Half <- MCHalf
  Prime = 10007
  NaN = NaN
  Pi = 355
  Avogadro = 6022
  Unit <- MCUnit
  Value = {7}
  BasePower = 100
  BaseVoltage = 80
  MaxConversions = 2
INVARIANT
  EquationDecides
