SPECIFICATION Spec
CONSTANTS
  n1 = n1
  n2 = n2
  h1 = h1
  h2 = h2
  Names = {n1, n2}
  DefaultName = n1
  NoName = NoName
  Hosts = {h1}
  DefaultHost = h1
  NoPin = NoPin
  Clicks = {"http", "any"}
  MayBreak = TRUE
  Broken = Broken
  Closed = Closed
  MaxEdits = 2
  MaxClicks = 1
INVARIANTS
  TypeOK
  RunsWithoutClash
  HttpMarkHonest
PROPERTY OnlyListenRowInvalidates
