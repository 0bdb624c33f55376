SPECIFICATION FairSpec
CONSTANTS
  MaxStreams = 2
  Size = 1
  Times <- MCTimes
  MaxPackets = 2
  Monotone = TRUE
INVARIANT
  SortedOutput
PROPERTIES
  MergeSpec
  DeliverableIsRead
