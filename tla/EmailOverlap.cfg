\* Clients overlap requests, for one message and for a blank id; nothing fails.
CONSTANTS
  w1 = w1
  w2 = w2
  w3 = w3
  Workers <- MCWorkers2
  Mids = {"m1", "blank"}
  BlankMid = "blank"
  TenantIds <- MCTenantIds
  Seeded <- MCSeeded
  Alias <- MCAlias
  Intents = {"VPN_ISSUE"}
  None = "none"
  Blank = "blank"
  Envelopes <- FewEnvelopes
  Ttl = 2
  Overlap = TRUE
  MaxRequests = 4
  MaxFaults = 0
  MaxCrashes = 0
SPECIFICATION Spec
SYMMETRY Symmetry2
INVARIANT NoAcceptedEmailLost
INVARIANT BoundedDuplication
