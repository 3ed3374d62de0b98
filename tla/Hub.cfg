CONSTANTS
  InputQueueSize = 2
  MaxRuns = 2
  MaxChunks = 3
  ConnectMayOutlast = TRUE
SPECIFICATION FairSpec
INVARIANT StopReleases
INVARIANT ChunkAccounted
PROPERTY StopEnds
PROPERTY ChunksDistributed
