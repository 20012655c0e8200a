SPECIFICATION ObsSpec
CONSTANTS
  MaxFrame = 200
  Base = 4
  LittleEndian = TRUE
  Pid = {1, 2}
  Program <- Programs
  Dest <- Dests
  Hostname <- Hosts
  lower <- Lower
  Padding <- Paddings
  CacheSize = 1
  RecentKeys = 1
  PerKey = 2
  DnsSize = 1
  StatsKeys = 2
  NoteTtl = {1, 2}
  Scenario <- Scenarios
INVARIANTS
  TablesConsistent
  EventAndPacketAgree
  

  
  
