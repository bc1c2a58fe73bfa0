SPECIFICATION Spec
CONSTANTS
  MaxSize = 9
  Given <- MCGiven
INVARIANTS
  TypeOK
  ThreeLayersOfSplits
PROPERTIES
  CallsDescend
  ReadingEnds
\* A call that has returned makes no further step.
CHECK_DEADLOCK FALSE
