CONSTANTS
  QueueSize = 2
  Workers = {w1, w2}
  NoWorker = NoWorker
  MaxChunks = 3
  MaxStarts = 2
  JoinMayTimeOut = FALSE
SPECIFICATION Spec
INVARIANT RestartServes
