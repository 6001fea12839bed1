SPECIFICATION TreesSpec
CONSTANTS
  contentA = contentA  contentB = contentB  oldA = oldA  oldS = oldS
  Torn = torn
  Jobs = {j1}
  Plans <- AllPlans
  Tree <- LinkTree
  Faults <- HonestFaults
  MaxRuns = 2
  Queries <- SearchQueries
  Dotted = {"d", "k"}
  MaxDirs = 4
INVARIANTS CompletedMeansCopied NothingLost SearchIsComplete
PROPERTIES DestinationUntouched JobEnds
