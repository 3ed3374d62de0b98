CONSTANTS
  QueueSize = 1
  Workers = {w1, w2}
  NoWorker = NoWorker
  MaxChunks = 2
  MaxStarts = 2
  JoinMayTimeOut = TRUE
SPECIFICATION FairSpec
INVARIANT SingleWorker
INVARIANT CleanStop
INVARIANT NoSilentLoss
PROPERTY BacklogDiscarded
PROPERTY ImplementsRelay
PROPERTY StopEnds
PROPERTY QueueDrains
