SPECIFICATION FairSpec
CONSTANTS
  p1 = p1
  p2 = p2
  p3 = p3
  Procs = {p1, p2, p3}
  First = p1
  Rows = {"toggle", "quit"}
  OpenMayFail = TRUE
  EventsPerSave = 2
  MaxSaves = 2
  MaxClicks = 1
INVARIANTS
  TypeOK
  OneReplacement
  StaleIsTold
  ThereIsADaemon
PROPERTY PicksUpEdits
CHECK_DEADLOCK FALSE
