SPECIFICATION FairLocksSpec
CONSTANTS
  NoThread = NoThread
  Thread <- TwoThreads
  Lock <- SharedLocks
  Repertoire <- WithProcessList
INVARIANTS
  NoWaitCycle
CHECK_DEADLOCK FALSE
