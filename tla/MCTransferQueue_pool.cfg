SPECIFICATION Spec
CONSTANTS
  o1 = o1  o2 = o2  s1 = s1  d1 = d1  d2 = d2
  Jobs = {o1, s1}
  Workers = {w1, w2, w3}
  Callers = {p1, p2}
  Main = main
  Limit = 2
  None = None
  Requests <- PoolRequests
  Kind <- KindOf
  Name <- SameName
SYMMETRY ThreadSymmetry
INVARIANTS SlotsAreOwned NoLostWakeup OneVisibleRun
PROPERTY ImplementsPool
