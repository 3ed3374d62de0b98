CONSTANTS
  QueueSize = 2
  Closers = {subscriber, hub}
  MaxFrames = 4
SPECIFICATION FairSpec
INVARIANT FrameAccounted
PROPERTY ClosedMeansEmpty
PROPERTY ReaderReturns

