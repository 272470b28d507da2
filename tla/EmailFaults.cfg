\* Store calls raise and the backend restarts; clients do not overlap requests.
CONSTANTS
  w1 = w1
  w2 = w2
  w3 = w3
  Workers <- MCWorkers2
  Mids = {"m1"}
  BlankMid = "blank"
  TenantIds <- MCTenantIds
  Seeded <- MCSeeded
  Alias <- MCAlias
  Intents = {"VPN_ISSUE"}
  None = "none"
  Blank = "blank"
  Envelopes <- AllEnvelopes
  Ttl = 2
  Overlap = FALSE
  MaxRequests = 4
  MaxFaults = 2
  MaxCrashes = 1
SPECIFICATION Spec
SYMMETRY Symmetry2
INVARIANT TypeOK
INVARIANT ProcessedOncePerWindow
INVARIANT LeftoverPendingDiesFirst
INVARIANT DuplicateMatchesCommit
INVARIANT LedgerBacked
INVARIANT LedgerComplete
PROPERTY ImplementsLifecycle
