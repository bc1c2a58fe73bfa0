SPECIFICATION Spec
CONSTANTS
  Base = {second, count}
  Second = second
  CommodityBits = {gold, inverse}
  Half <- MCHalf
  Operand <- MCOperand
  Power <- MCPower
  ExactBound = 12
INVARIANTS
  TypeOK
  WrapsToExact
  CheckedIsExact
  TimesThenDividesCancels
  PowIsRepeatedTimes
  RootUndoesPow
  InvLaws
PROPERTIES
  NaNStays
  ErrorStays
