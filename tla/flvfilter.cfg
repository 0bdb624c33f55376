SPECIFICATION Spec
CONSTANTS
  MediaTypes <- MCMediaTypes
  Stamps <- MCStamps
  Sizes <- MCSizes
  MaxPackets = 2
INVARIANTS
  FlagsMatchPins
  WriterKnowsPins
  Walkable
  MetadataTrue
  TagsInOrder
