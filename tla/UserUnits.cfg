SPECIFICATION HSpec
CONSTANTS
  m = m
  idgit = idgit
  meter = meter
  clucks = clucks
  cluckseggs = cluckseggs
  uMeter = uMeter
  uClucks = uClucks
  NoUnit = NoUnit
  NoName = NoName
  Name <- MCName
  UnitValue <- MCUnitValue
  Unit <- MCUnit
  unit_cast <- MCcast
  Builtin <- MCBuiltin
  BuiltinName <- MCBuiltinName
  File <- MCFile
INVARIANTS
  TypeOK
  FlagFollowsRequests
  WrittenNamesReadBack
  FileDefinesWhatItAccepts
