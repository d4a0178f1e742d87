SPECIFICATION Spec
CONSTANTS
  Containers <- MCContainers
  Parts <- MCParts
  Starts <- MCStarts
  MaxFaults = 2
INVARIANTS
  RestoredUnlessReported
  PassedChecksStand
PROPERTIES
  SettingsKept
