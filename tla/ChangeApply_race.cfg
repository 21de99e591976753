\* Two applies and a person with one change; the file system has hard links.
SPECIFICATION Spec
CONSTANTS
  a1 = a1
  a2 = a2
  Appliers <- TwoAppliers
  N <- MCN
  Op <- MCOp
  BaseX <- MCBaseX
  ResultX <- MCResultX
  D = 1
  Needs <- MCNeeds
  Above <- MCAbove
  MustAccept <- MCMustAccept
  HardLinks = TRUE
  MaxEdits = 1
  MaxReports = 2
INVARIANTS
  TypeOK
  ReportExact
  TouchedIsPrefix
  WholeSetOrNothing
  RecoveryRestores
PROPERTIES
  AdditionsNeverReplace
  EarlierEditsSurvive
SYMMETRY Symmetry
CHECK_DEADLOCK FALSE
