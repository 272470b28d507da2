\* Two overlapping requests for one message.
CONSTANTS
  w1 = w1
  w2 = w2
  w3 = w3
  Workers <- MCWorkers2
  Mids = {"m1"}
  BlankMid = "blank"
  TenantIds <- MCTenantIds
  Seeded <- MCSeeded
  Alias <- MCAlias
  Intents = {"VPN_ISSUE"}
  None = "none"
  Blank = "blank"
  Envelopes <- FewEnvelopes
  Ttl = 2
  Overlap = TRUE
  MaxRequests = 2
  MaxFaults = 0
  MaxCrashes = 0
SPECIFICATION Spec
SYMMETRY Symmetry2
INVARIANT ProcessedOncePerWindow
