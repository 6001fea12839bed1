SPECIFICATION Spec
CONSTANTS
  Conns = {f, s}
  Ftp = {f}
  Ids = {i1, i2}
  Callers = {p1, p2}
  Main = main
  None = None
SYMMETRY RequestSymmetry
INVARIANTS TypeOK UsableIsOpen OneCloser ConnectingIsAttended
