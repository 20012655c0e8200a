SPECIFICATION FairLocksSpec
CONSTANTS
  NoThread = NoThread
  Thread <- Threads
  Lock <- SharedLocks
  Repertoire <- AllButProcessList
PROPERTIES
  AllFinish
CHECK_DEADLOCK FALSE
