CONSTANTS
  Component = {"a", "b", "c"}
  Name <- MCName
  Request = {r1, r2}
  Job <- MCJobs
  Token = {t1, t2, t3}
  NoToken = NoToken
  NoName = NoName
  MaxClock = 1

SPECIFICATION FairSpec

INVARIANTS
  TypeOK
  LocksEndWithRequest
  OneWriterPerName

PROPERTIES
  RefusedOnlyIfContended
  UnlocksSucceed
  EveryRequestAnswered
