CONSTANTS
  t1 = t1
  t2 = t2
  Trackers = {t1, t2}
  TransIds = {11}
  MaxAttempts = 1
  MaxPeers = 1
  Links <- MCLinks
SPECIFICATION TorrentFairSpec
ACTION_CONSTRAINT AnswersWhileAwaited
CHECK_DEADLOCK FALSE
INVARIANTS
  CountsConnected
  AnnounceAfterConnects
  ExitReleasesConnections
PROPERTY MainEnds
