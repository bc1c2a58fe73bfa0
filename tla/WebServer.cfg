CONSTANTS
  Text <- MCText
  Empty = ""
  TooLong = {"long"}
  NormalMeasurement = {"10 tons", "two"}
  NormalBase = {"10 tons"}
  NormalUnit = {"lb", "tons", "kg"}
  BaseMark = {"<base>"}
  BaseUnitsOf <- MCBaseUnitsOf
  Connection = {"c1", "c2"}
  Request <- MCRequest
  Malformed = Malformed
  MaxRequests = 2
  MaxSockets = 1
SPECIFICATION Spec
INVARIANTS
  TypeOK
  CountersTell
PROPERTIES
  ImplementsService
  ConnectionsAreAccepted
  SessionsEnd
CHECK_DEADLOCK FALSE
