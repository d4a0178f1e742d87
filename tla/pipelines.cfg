SPECIFICATION PipelinesSpec
CONSTANTS
  N = 3
  MaxRuns = 4
  MaxReads = 2
CHECK_DEADLOCK FALSE
INVARIANTS
  PassMeansExpected
  PassLeavesNoGoroutine
  NoGap
PROPERTY
  ValidationsEnd
