SPECIFICATION FairSpec
CONSTANTS
  integrations = integrations
  multiKueue = multiKueue
  FwPaths <- MCFwPaths
  Plan <- MCPlan
  Touched = {"kueue", "namespace", "scheduler", "run"}
  AdminValues = {"v0", "v1"}
  MaxErrors = 1
  MaxExternal = 2
INVARIANTS
  NothingForgotten
  CleanMeansRestored
  Barrier
  OneErrorSurvived
PROPERTY CleanupEnds
