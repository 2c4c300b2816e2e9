SPECIFICATION DesktopSpec
CONSTANTS
  here = here
  there = there
  p1 = p1
  p2 = p2
  t1 = t1
  t2 = t2
  Places = {here, there}
  Nowhere = Nowhere
  Procs = {p1, p2}
  Nobody = Nobody
  Threads = {t1, t2}
SYMMETRY Symmetry
CONSTRAINT OneAtATime
INVARIANTS
  DesktopTypeOK
  OneDaemon
  QuitMeansQuit
  MarkAgrees
  ReadyIsLocked
  NothingLeft
  OneInstaller
