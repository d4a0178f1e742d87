SPECIFICATION PipelinesSpec
CONSTANTS
  N = 2
  MaxRuns = 0
  MaxReads = 0
CHECK_DEADLOCK FALSE
INVARIANT
  FailureIsReported
