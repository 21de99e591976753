\* Runs that share their outputs, one after another and at the same time.
SPECIFICATION Spec
CONSTANTS
  r1 = r1
  r2 = r2
  r3 = r3
  noFile = noFile
  NoFile = noFile
  NoRun = NoRun
  Earlier = Earlier
  Runs <- ThreeRuns
  Files <- SharedFiles
  OutOf <- SharedOut
  LogOf <- SharedLog
  Chain = FALSE
  Candidates = 1
INVARIANTS
  TypeOK
  OneWriter
  NoStaleVerdict
  WholeEntries
  ExitMeansRecorded
CHECK_DEADLOCK FALSE
