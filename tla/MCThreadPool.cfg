CONSTANTS
  NumThreads = 3
  NumJobs = 3
  KillSeesExit = TRUE
SPECIFICATION FairSpec
CHECK_DEADLOCK FALSE
INVARIANTS
  ListExclusive
  JobInOnePlace
  NoUseAfterFree
PROPERTIES
  ImplementsJobPool
  JobsAreRun
  DestroyEnds
