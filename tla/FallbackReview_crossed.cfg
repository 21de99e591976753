\* Two runs that need each other's outputs, with a chain of two reviewers; a
\* crashed run leaves its locks.
SPECIFICATION FairSpec
CONSTANTS
  r1 = r1
  r2 = r2
  r3 = r3
  noFile = noFile
  NoFile = noFile
  NoRun = NoRun
  Earlier = Earlier
  Runs <- TwoRuns
  Files <- CrossedFiles
  OutOf <- CrossedOut
  LogOf <- CrossedLog
  Chain = TRUE
  Candidates = 2

  
PROPERTIES
  OwnsOutputs
  EveryRunEnds
CHECK_DEADLOCK FALSE
