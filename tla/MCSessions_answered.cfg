SPECIFICATION FairSpec
CONSTANTS
  Conns = {f}
  Ftp = {f}
  Ids = {i1, i2}
  Callers = {p1, p2}
  Main = main
  None = None
PROPERTY OthersAreAnswered
