SPECIFICATION MCSpec
CONSTANTS
  w1 = w1
  w2 = w2
  j1 = j1
  c1 = c1
  None = None
  Jobs = {j1}
  Windows = {w1, w2}
  Slow = {w2}
  second = w2
  Codes = {c1}
  BusBuffer = 2
  SocketBuffer = 2
INVARIANTS LastUpdateIsTrue OutcomeIsShown
PROPERTY OutcomeReachesPages
