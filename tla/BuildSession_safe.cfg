\* The alarms of the proxy against the builder's life; docker may fail anywhere.
SPECIFICATION Spec
CONSTANTS
  SubnetAttempts = 1
  MaxLines = 3
  MaxSurvivors = 0
  MaxInterrupts = 0
INVARIANTS
  TypeOK
  AlarmStopsBuilder
  ExitedMeansServed
  ExposureWithheld
CHECK_DEADLOCK FALSE
