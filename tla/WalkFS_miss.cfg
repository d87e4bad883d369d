CONSTANTS
  Component = {"a", "b", "x", "y"}
  Name <- MCName
  Job <- MCMissJobs
  Tree0 <- MCTree
  Shared = FALSE
  MaxHist = 1
  PageSize = 2
  MaxVisits = 12

SPECIFICATION Spec

INVARIANTS
  WalkNoDeeperThanDrive

CHECK_DEADLOCK FALSE
