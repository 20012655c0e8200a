\* The terminal client over its polling, audit and command tasks.
\* The client may quit, and nothing but the daemon is left then.
SPECIFICATION TuiSpec
CONSTANTS
  MaxFrame = 60
  MaxAuditLines = 3
  DaemonUid = 0
  GroupMembers = {1}
  Uid = 1
  MaxRx = 1
  MaxLog = 4
  Scenario <- Scenarios
INVARIANTS
  TuiConsistent
  
PROPERTIES
  
  Converges
CHECK_DEADLOCK FALSE
