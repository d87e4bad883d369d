CONSTANTS
  Component = {"a", "b"}
  Name <- MCChain
  NoName = NoName
  Caller = {c1, c2}
  Duration <- MCTimeouts
  MaxGen = 2
  MaxClock = 1

SYMMETRY MCCallers

SPECIFICATION Spec

INVARIANTS
  TypeOK
  RefCountExact
  LocksIndexed
  ExpiryQueueExact
  NoConflictingLocks
  ClaimsAreHeld
  ExclusiveAccess

PROPERTIES
  ConfirmedLockStays
  ImplementsLockSystem

CHECK_DEADLOCK FALSE
