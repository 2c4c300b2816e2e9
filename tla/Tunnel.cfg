SPECIFICATION Spec
CONSTANTS
  InitialBackoff = 1
  MaxBackoff = 3
  Multiplier = 2
  Pinned = TRUE
  HttpEnabled = TRUE
  MaxFlips = 3
INVARIANTS
  TypeOK
  NoLostEnable
  StatusHonest
  BackoffInRange
  SignalHasCause
PROPERTIES
  KeepsPromise
CHECK_DEADLOCK FALSE
