\* The order in which the alarms arrive decides, not their strength.
SPECIFICATION Spec
CONSTANTS
  SubnetAttempts = 1
  MaxLines = 3
  MaxSurvivors = 0
  MaxInterrupts = 0
INVARIANTS
  StrongestFirst
CHECK_DEADLOCK FALSE
