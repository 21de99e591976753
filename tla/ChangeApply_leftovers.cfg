\* One apply on its own: does the report hold everything it left behind?
SPECIFICATION Spec
CONSTANTS
  a1 = a1
  a2 = a2
  Appliers <- OneApplier
  N <- MCN
  Op <- MCOp
  BaseX <- MCBaseX
  ResultX <- MCResultX
  D = 1
  Needs <- MCNeeds
  Above <- MCAbove
  MustAccept <- MCMustAccept
  HardLinks = TRUE
  MaxEdits = 0
  MaxReports = 2
INVARIANT RecoveryStateExact
CHECK_DEADLOCK FALSE
