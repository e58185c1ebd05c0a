CONSTANTS
  Tids <- MCTids
  ConnectionIds <- MCConnectionIds
  Hashes <- MCHashes
  Behind <- MCBehind
  PeerLists <- MCPeerLists
  Messages <- MCMessages
  Stale <- MCStale
  BufSize = 32
SPECIFICATION Spec
CHECK_DEADLOCK FALSE
INVARIANTS
  RequestsAreRead
  AnswersAsMeant
