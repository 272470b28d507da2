\* Every mixture of answers, in any order; the user keeps answering.
CONSTANTS
  OSes = {"windows", "mac"}
  Clients = {"AnyConnect", "Unknown"}
  Symptoms = {"disconnects", "cannot_connect"}
  Codes = {"619", "TIMEOUT", "CERTIFICATE"}
  None = "unset"
  Messages <- EveryMessage
SPECIFICATION FairSpec
INVARIANT AsksFirstOpen
INVARIANT StepsMatchError
INVARIANT AttemptsFollowReports
INVARIANT AnswerPossible
PROPERTY FactsStable
PROPERTY ClimbsLadder
PROPERTY AnswersBringCloser
PROPERTY Concludes
