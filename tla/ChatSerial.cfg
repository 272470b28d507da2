\* One request at a time; a store call raises, the backend restarts, the session is deleted or expires.
CONSTANTS
  w1 = w1
  w2 = w2
  Workers <- MCWorkers1
  OSes = {"windows"}
  Clients = {"AnyConnect"}
  Symptoms = {"disconnects"}
  Codes = {"619"}
  None = "unset"
  Tenants = {"bank_demo"}
  Unknown = "unlisted"
  Requests <- AllRequests
  Overlap = FALSE
  MaxRenewals = 2
  MaxRows = 5
  MaxFaults = 1
  MaxCrashes = 2
SPECIFICATION FairSpec
INVARIANT TypeOK
INVARIANT PendingMatchesContext
INVARIANT ToldMeansClosed
INVARIANT DeletedStaysDeleted
INVARIANT ReportsComplete
INVARIANT BilledAsVpn
PROPERTY ImplementsLadder
PROPERTY PendingConcludes
