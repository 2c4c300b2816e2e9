SPECIFICATION Spec
CONSTANTS
  Data <- TwoPieces
  MaxHead = 3
INVARIANTS
  InOrder
PROPERTIES
  HalfClose
  EndsWithBoth
  EndsWithSession
CHECK_DEADLOCK FALSE
