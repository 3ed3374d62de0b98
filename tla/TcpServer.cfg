SPECIFICATION FairSpec
CONSTANTS
  Clients = {c1, c2}
  Nobody = nobody
  Limits = {1, 2}
  QueueSize = 1
  MaxChunks = 2
  MaxStarts = 1
INVARIANTS ClientsHandled
PROPERTIES BroadcastFair Progress
CHECK_DEADLOCK FALSE
