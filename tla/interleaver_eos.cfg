SPECIFICATION Spec
CONSTANTS
  MaxStreams = 2
  Size = 2
  Times <- MCTimes
  MaxPackets = 3
  Monotone = TRUE
PROPERTIES
  EosMeansAllEnded
