\* A reply that looks like a failure and like a success.
CONSTANTS
  OSes = {"windows", "mac"}
  Clients = {"AnyConnect", "Unknown"}
  Symptoms = {"disconnects", "cannot_connect"}
  Codes = {"619", "TIMEOUT", "CERTIFICATE"}
  None = "unset"
  Messages <- EveryMessage
SPECIFICATION Spec
PROPERTY FailureIsNoSuccess
