CONSTANTS
  Component = {"a", "b", "x"}
  Name <- MCName
  Call = {p}
  Job <- MCPageJobs
  Tree0 <- MCPageTree
  Shared = TRUE
  PageSize = 1
  MaxHist = 3
  MaxStart = 2

SPECIFICATION FairSpec

INVARIANTS
  ListingComplete

PROPERTIES
  EveryCallReturns

CHECK_DEADLOCK FALSE
