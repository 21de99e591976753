CONSTANTS
  Proc = {p1, p2, p3}
  NoProc = NoProc
  Cap = 1
  MaxWrites = 2
  MaxForks = 3
  MaxRounds = 1
  Target = {t1, n1}
  Name = {n1}
  Path <- MCPath
  Git = ".git"
  NotUtf8 <- MCNotUtf8
  NotPlain <- MCNotPlain
  Inputs <- MCInputs
SPECIFICATION FairSpec
INVARIANTS TypeOK DriverSound ChangeSetExact IsolationIsProven
PROPERTY ContainerEnds
CHECK_DEADLOCK FALSE
