SPECIFICATION Spec
CONSTANTS
  Hint <- MCHint
  MaxNumber = 20
  Others <- MCOthers
  StartTags <- MCStartTags
  MaxItems = 5
CHECK_DEADLOCK FALSE
INVARIANTS
  TypeOK
  PropfindExact
  AskedNamesAnswered
