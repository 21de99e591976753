\* Two applies that report into one run directory, and a person with one
\* change; the file system has no hard links, and the addition lies below two
\* directories that have to be made.
SPECIFICATION FairSpec
CONSTANTS
  a1 = a1
  a2 = a2
  Appliers <- TwoAppliers
  N <- NestedN
  Op <- NestedOp
  BaseX <- NestedBaseX
  ResultX <- NestedResultX
  D = 2
  Needs <- NestedNeeds
  Above <- NestedAbove
  MustAccept <- NestedMustAccept
  HardLinks = FALSE
  MaxEdits = 1
  MaxReports = 2
PROPERTIES
  
  ApplyEnds
CHECK_DEADLOCK FALSE
