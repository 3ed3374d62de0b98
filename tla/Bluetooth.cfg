SPECIFICATION Spec
CONSTANTS
  d1 = d1
  d2 = d2


  Devices = {d1, d2}
  Pins = {"1234", "0000"}
  NoPin = "none"
  Calls <- MCCalls
  Far = {d2}
  ClaimsDefault = TRUE
  MaxRetries = 2
INVARIANTS OutcomeTells ScanStops
PROPERTIES AnswersInFlight
CHECK_DEADLOCK FALSE
