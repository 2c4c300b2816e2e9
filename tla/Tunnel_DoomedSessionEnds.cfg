SPECIFICATION Spec
CONSTANTS
  InitialBackoff = 1
  MaxBackoff = 2
  Multiplier = 2
  Pinned = FALSE
  HttpEnabled = TRUE
  MaxFlips = 2
PROPERTY DoomedSessionEnds
CHECK_DEADLOCK FALSE
