CONSTANTS
  Monitors = {m1, m2}
  RunLoop = RunLoop
  Caller = Caller
  None = None
  MaxSockets = 2
  MaxDelay = 2
  JoinMayTimeOut = TRUE
SPECIFICATION FairSpec
INVARIANT NeverStuck
INVARIANT StateTellsSocket
INVARIANT Watched
PROPERTY LossNoticed
PROPERTY StopReturns
