SPECIFICATION FairInputSpec
CONSTANTS
  Kinds <- AllKinds
  InitialDelay = 1
  MaxDelay = 5
  Multiplier = 2
  MaxFailures = 5
INVARIANTS
  ConnectedIsOpen
  Backoff
PROPERTIES
  Reconnects
CHECK_DEADLOCK FALSE
