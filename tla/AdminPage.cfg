\* The page, its overlapping fetches and the usage log behind them.
CONSTANTS
  None = None
  Empty = Empty
  Threads <- MCThreads
  Tenants = {"bank_demo", "auto_demo", "acme"}
  Demo = {"bank_demo", "auto_demo"}
  Posted = {"acme"}
  First = "bank_demo"
  EventTypes = {"label_mapping_updated", "tenant_created", "email_ingested"}
  Others <- MCOthers
  Intents = {"VPN_ISSUE"}
  Limits = {1}
  Offsets = {0}
  MaxRequests = 3
  MaxOthers = 1
  MaxFaults = 1
SPECIFICATION FairAdminSpec
INVARIANT LabelsStayHome
INVARIANT SavedIsCounted
INVARIANT SelectedListed
INVARIANT SpinnersAwaited
PROPERTY TakesEffectAtOnce
PROPERTY PageSettles
CHECK_DEADLOCK FALSE
