CONSTANTS
  Component = {"a", "b", "x"}
  Name <- MCName
  Call = {p, q}
  Job <- MCJobs
  Tree0 <- MCTree
  Shared = FALSE
  PageSize = 1000
  MaxHist = 3
  MaxStart = 3

SYMMETRY MCCalls

SPECIFICATION Spec

INVARIANTS
  TypeOK
  AnsweredChangesAreSeen
  ServedAsListed

PROPERTIES
  TargetWasListed
  NewDirWhereAsked

CHECK_DEADLOCK FALSE
