SPECIFICATION TreesSpec
CONSTANTS
  contentA = contentA  contentB = contentB  oldA = oldA  oldS = oldS
  Torn = torn
  Jobs = {j1}
  Plans <- AllMovePlans
  Tree <- PlainTree
  Faults <- DownloadFaults
  MaxRuns = 1
  Queries <- SearchQueries
  Dotted = {"d"}
  MaxDirs = 4
INVARIANT RemovesEmptyTree
