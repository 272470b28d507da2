\* Overlapping writes, SQLite calls that raise and a restart.
CONSTANTS
  w1 = w1
  w2 = w2
  Workers <- MCWorkers2
  TenantIds = {"bank_demo", "acme", ""}
  Blank = ""
  Demo = {"bank_demo"}
  DemoConfig <- MCDemoConfig
  Profiles = {"demo", "own"}
  Labels = {"none", "it-support", "own"}
  NoLabels = "none"
  ItSupport = "it-support"
  Maps = {"demo", "own"}
  Unchanged = "unchanged"
  Posts <- MCPosts
  Patches <- MCPatches
  NoTenant = NoTenant
  MaxRequests = 3
  MaxFaults = 1
  MaxCrashes = 1
SPECIFICATION Spec
SYMMETRY Symmetry2
INVARIANT ServedMatchesStored
INVARIANT ServedIsPersistent
INVARIANT CreatedBounded
PROPERTY KeepsOtherFields
CHECK_DEADLOCK FALSE
