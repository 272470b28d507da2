\* Two requests for one session overlap.
CONSTANTS
  w1 = w1
  w2 = w2
  Workers <- MCWorkers2
  OSes = {"windows"}
  Clients = {"AnyConnect"}
  Symptoms = {"disconnects"}
  Codes = {"619"}
  None = "unset"
  Tenants = {"bank_demo"}
  Unknown = "unlisted"
  Requests <- FewRequests
  Overlap = TRUE
  MaxRenewals = 0
  MaxRows = 2
  MaxFaults = 0
  MaxCrashes = 0
SPECIFICATION Spec
SYMMETRY Symmetry2
PROPERTY HandoffIsFinal
