SPECIFICATION Spec
CONSTANTS
  o1 = o1  o2 = o2  s1 = s1  d1 = d1  d2 = d2
  Jobs = {o1, d1}
  Workers = {w1, w2}
  Callers = {p1, p2}
  Main = main
  Limit = 1
  None = None
  Requests <- RacingRequests
  Kind <- KindOf
  Name <- SameName
SYMMETRY ThreadSymmetry
INVARIANTS TypeOK QueuedJobIsHeld FinishedJobReleasesWaiters
PROPERTY CleanWaitFindsNobody
