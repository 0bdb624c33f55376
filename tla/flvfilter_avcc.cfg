SPECIFICATION Spec
CONSTANTS
  MediaTypes <- MCMediaTypes
  Stamps <- MCStamps
  Sizes <- MCSizes
  MaxPackets = 2
INVARIANT
  SequenceHeaderWritten
