SPECIFICATION Spec
CONSTANTS
  MaxStreams = 2
  Size = 2
  Times <- MCOneTime
  MaxPackets = 3
  Monotone = FALSE
INVARIANTS
  QueueBounded
  WritableIffRoom
  NoLostWakeup
  StreamFifo
