SPECIFICATION OlmSpec
CONSTANTS
  c1 = c1
  c2 = c2
  p1 = p1
  p2 = p2
  n1 = n1
  n2 = n2
  wanted = wanted
  other = other
  Callers <- MCCallers
  Waiting = {c1}
  Packages <- MCPackages
  Plan <- MCPlan
  Namespaces = {n1, n2}
  PkgNS <- MCPkgNS
  Channels = {wanted, other}
  Requested = wanted
  AdminSubs <- MCAdminSubs
  AdminGroups <- MCAdminGroups
  Channel <- Install
  UpgradeChannel <- Upgrade
  Environments <- PatchesSkipped
  MaxSpecs = 2
  MaxReleases = 1
  MaxFaults = 0
INVARIANT DiffAsDocumented
