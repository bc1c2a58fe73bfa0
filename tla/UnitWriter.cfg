SPECIFICATION Spec
CONSTANTS
  Base = {"meter", "second", "kilogram", "ampere", "candela", "kelvin", "mole", "radian", "currency", "count"}
  Second = "second"
  Half <- MCHalf
  Means <- MCMeans
  Clash <- MCClash
  Input <- MCInput
  BaseName <- MCBaseName
  UserName <- MCUserName
  KgTail <- MCKgTail
  TestUnits <- MCTestUnits
  PowerUnits <- MCPowerUnits
  SITestUnits <- MCSITestUnits
INVARIANTS
  TypeOK
  ReadsBack
PROPERTY CallsAreSmaller
