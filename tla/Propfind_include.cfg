SPECIFICATION Spec
CONSTANTS
  Hint <- MCHint
  MaxNumber = 20
  Others <- MCOthers
  StartTags <- MCStartTags
  MaxItems = 4
CHECK_DEADLOCK FALSE
INVARIANT IncludedNamesAnswered
