SPECIFICATION PipelinesSpec
CONSTANTS
  N = 0
  MaxRuns = 2
  MaxReads = 1
CHECK_DEADLOCK FALSE
INVARIANT
  EndedWatchNoticed
