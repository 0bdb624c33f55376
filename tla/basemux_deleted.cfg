SPECIFICATION MuxSpec
CONSTANTS
  MaxStreams = 2
  Size = 1
  Times <- MCTimes
  MaxPackets = 2
  Monotone = FALSE
INVARIANT
  NoDeletedStream
