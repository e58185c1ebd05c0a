CONSTANTS
  Sizes = {0, 6}
  PieceUnits = 3
  DictUnits = 1
  MaxOther = 1
  MaxLength = 2
  TwoTo32 = 65536
SPECIFICATION FairSpec
CHECK_DEADLOCK FALSE
INVARIANTS
  ReadsInBounds
  FramingKept
  MetadataFits
  SilenceIsHarmless
PROPERTY SessionEnds
