SPECIFICATION FairSpec
CONSTANTS
  o1 = o1  o2 = o2  s1 = s1  d1 = d1  d2 = d2
  Jobs = {o1, o2}
  Workers = {w1, w2}
  Callers = {p1}
  Main = main
  Limit = 1
  None = None
  Requests <- LivenessRequests
  Kind <- KindOf
  Name <- SameName
PROPERTIES QueueDrains ShutdownReturns
