SPECIFICATION FairSpec
CONSTANTS
  A = A
  B = B
  C = C
  Containers <- MCContainers
  Ordered <- MCOrdered
  OptOut <- MCOptOut
  MaxAttempts = 2
  MaxRuns = 4
INVARIANTS
  FailedNamespacePreserved
  LastFailurePreserved
  NoNamespaceLeaked
  BodyNamespaceLive
  MissingProjectReported
PROPERTY
  SuiteEnds
