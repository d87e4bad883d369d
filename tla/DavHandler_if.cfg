CONSTANTS
  Component = {"a", "b", "c"}
  Name <- MCName
  Request = {r1, r2}
  Job <- MCJobs
  Token = {t1, t2, t3}
  NoToken = NoToken
  NoName = NoName
  MaxClock = 1

SPECIFICATION Spec

INVARIANTS
  FailedListsRefuse
