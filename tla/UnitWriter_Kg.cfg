SPECIFICATION Spec
CONSTANTS
  Base = {"meter", "second", "kilogram", "ampere", "candela", "kelvin", "mole", "radian", "currency", "count"}
  Second = "second"
  Half <- MCHalf
  Means <- MCMeans
  Clash <- MCClash
  Input <- MCKgInput
  BaseName <- MCBaseName
  UserName <- MCKgUserName
  KgTail <- MCKgxTail
  TestUnits <- MCTestUnits
  PowerUnits <- MCPowerUnits
  SITestUnits <- MCSITestUnits
INVARIANT ReadsBack
