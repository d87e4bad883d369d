CONSTANTS
  Component = {"a", "b", "x", "y"}
  Name <- MCName
  Job <- MCJobs
  Tree0 <- MCTree
  Shared = TRUE
  MaxHist = 3
  PageSize = 2
  MaxVisits = 6

SPECIFICATION FairSpec

INVARIANTS
  TypeOK
  AnswerExact
  DepthRespected
  AnswerWellFormed

PROPERTIES
  WalkEnds

CHECK_DEADLOCK FALSE
