\* Functions of three levels, up to three function objects and four frames.
SPECIFICATION Spec
CONSTANTS
  Texts <- MCTextsAll
  Mains <- MCMains
  Text <- MCText
  Arguments <- MCArguments
  MaxRecursion = 3
  MaxFunctions = 3
  MaxFrames = 4
  Budget <- MCBudget
CHECK_DEADLOCK FALSE
INVARIANTS
  TypeOK
  PointsIntoFrame
  SeesVariable
PROPERTIES
  CallsBind
