CONSTANTS
  Component = {"a", "b", "x"}
  Name <- MCName
  Call = {p}
  Job <- MCMissJobs
  Tree0 <- MCFlatTree
  Shared = FALSE
  PageSize = 1000
  MaxHist = 2
  MaxStart = 1

SPECIFICATION Spec

INVARIANTS
  DeletedPathExisted

CHECK_DEADLOCK FALSE
