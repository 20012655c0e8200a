SPECIFICATION DeskSpec
CONSTANTS
  MaxFrame = 60
  DaemonUid = 0
  GroupMembers = {1}
  Uid = 1
  MaxAuditLines = 2
  Presets = {2, 3}
  DefaultLimit = 2
  HardCap = 3
  MaxLog = 4
  MaxEvents = 2
  Scenario <- Scenarios
INVARIANTS
  
  ScopeWasChosen
PROPERTIES
  DeskKeepsPlace
  
  DeskConverges
CHECK_DEADLOCK FALSE
