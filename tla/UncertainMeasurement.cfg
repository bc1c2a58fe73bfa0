SPECIFICATION Spec
CONSTANTS
  Base = {"meter", "second", "kilogram", "ampere", "candela", "kelvin", "mole", "radian", "currency", "count"}
  Second = "second"
  Half <- MCHalf
  Unit <- MCUnit
  Operand <- MCOperand
  OtherConversion <- MCConversion
  MaxCalls = 1
INVARIANTS
  CalculatesAsMeasurement
  MeasurementIsCertain
  UnitsDoNotMatter
  OrderDoesNotMatter
CHECK_DEADLOCK FALSE
