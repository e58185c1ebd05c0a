CONSTANTS
  t1 = t1
  Trackers = {t1}
  TransIds = {11, 22}
  MaxAttempts = 1
  MaxPeers = 1
SPECIFICATION FairSpec
CHECK_DEADLOCK FALSE
INVARIANTS
  RetryBudget
  GivesUpAfterBudget
  ConnectedGenuine
  ConnectRejectedByTracker
  AnnounceAnswered
  AnnounceUsesIssuedId
  DescriptorsBounded
PROPERTIES
  ExchangesEnd
