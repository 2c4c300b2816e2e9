SPECIFICATION Spec
CONSTANTS
  menu = menu
  tunnel = tunnel
  editor = editor
  daemon = daemon
  gui = gui
  i1 = i1
  i2 = i2
  i3 = i3
  i4 = i4
  i5 = i5
  i6 = i6
  c1 = c1
  c2 = c2
  Writers = {menu, editor}
  Pids = {daemon, gui}
  pid <- OneWriterEach
  Inodes = {i1, i2, i3, i4, i5, i6}
  Contents = {c1, c2}
  NoContents = NoContents
  Torn = Torn
  None = None
  Fsync = TRUE
SYMMETRY Symmetry
INVARIANTS
  DestIntact
PROPERTY ImplementsRegister
