\* What tickets say, with every provider and threshold, a tenant that is
\* created or edited while requests are served, and emails that wait for it.
CONSTANTS
  w1 = w1
  w2 = w2
  bank = bank
  Workers <- MCWorkers
  Mids = {"m1"}
  Texts <- MCTexts
  Numeric = {"619", "809"}
  Settings <- MCSettings
  Garbled = Garbled
  Responses <- MCResponses
  Tenants = {bank}
  Nobody = Nobody
  Configs <- MCConfigs
  Unknown = Unknown
  Nothing = Nothing
  MaxRequests = 3
  MaxEdits = 1
SPECIFICATION Spec
SYMMETRY Symmetry
CHECK_DEADLOCK FALSE
INVARIANT RejectedLeavesNoTrace
INVARIANT TicketOfItsTime
