SPECIFICATION Spec
CONSTANTS
  Streams <- MCStreams
  Filters <- MCFilters
  ReadSizes = {1, 2, 3, 5, 13, 40}
  MaxSizeLine = 256
  MaxHead = 16
INVARIANTS
  BodyExact
  FramesComplete
CHECK_DEADLOCK FALSE
