SPECIFICATION Spec
CONSTANTS
  Scripts <- MCScripts
  GitHub <- MCGitHub
  MaxContainers = 2
  MaxForks = 2
  MaxFaults = 2
INVARIANTS TypeOK FailedSetupUndone CleanupComplete EventsReachController CommittedIsOurs CheckedRunIsMeant
PROPERTIES ContainersEnd
