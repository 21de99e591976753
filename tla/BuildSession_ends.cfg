\* Every way out of a run: an interrupt, an alarm at any time, creates that are
\* carried out late and a removal docker does not prove.
SPECIFICATION FairSpec
CONSTANTS
  SubnetAttempts = 2
  MaxLines = 1
  MaxSurvivors = 1
  MaxInterrupts = 1
INVARIANTS
  ProbeAlone
  LeftoversNamed
PROPERTIES
  RunEnds
CHECK_DEADLOCK FALSE
