\* One restart, no overlap, no failing call.
CONSTANTS
  w1 = w1
  w2 = w2
  w3 = w3
  Workers <- MCWorkers2
  Mids = {"m1"}
  BlankMid = "blank"
  TenantIds <- MCTenantIds
  Seeded <- MCSeeded
  Alias <- MCAlias
  Intents = {"VPN_ISSUE"}
  None = "none"
  Blank = "blank"
  Envelopes <- FewEnvelopes
  Ttl = 2
  Overlap = FALSE
  MaxRequests = 3
  MaxFaults = 0
  MaxCrashes = 1
SPECIFICATION Spec
SYMMETRY Symmetry2
INVARIANT NoAcceptedEmailLost
