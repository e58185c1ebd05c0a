CONSTANTS
  Characters <- MCCharacters
  Contents <- MCAllContents
  Depth <- MCDepth
  Dicts <- MCDicts
  Tails <- MCTails
  SlotOf <- MCSlotOf
  MapSlots = 3
  TwoTo32 = 4
  Host = "little"
SPECIFICATION DecoderSpec
CHECK_DEADLOCK FALSE
INVARIANTS
  MetadataIsRead
  EarlierEntriesKept
PROPERTIES
  DecodingEnds
