CONSTANTS
  NULL = NULL
  BareName = BareName
  Junk <- MCJunk
  BufLen = 8
  NumSlots = 3
  MaxChain = 4
  MCMaxParams = 3
  Links <- MCLinks
  Writings <- MCWritings
  Addresses <- MCAddresses
  Keys <- MCKeys
  Values <- MCKeys
  get_hash <- MCHash
SPECIFICATION Spec
CHECK_DEADLOCK FALSE
INVARIANTS
  ParsedAsWritten
  GoodLinkParses
