SPECIFICATION Spec
CONSTANTS
  a1 = a1
  a2 = a2
  a3 = a3
  none = none
  default404 = default404
  Pattern <- MCPattern
  Path <- MCPath
  Slot <- MCSlot
  Method <- MCMethod
  Host <- MCHost
  Action <- MCAction
  NoAction <- none
  Default404 <- default404
SYMMETRY Symmetry
CHECK_DEADLOCK FALSE
INVARIANTS
  TypeOK
  
  
  FirstMatchAnswers
  OnePlaceEach
PROPERTIES
  AnswersStay
