SPECIFICATION FairAuditSpec
CONSTANTS
  s1 = s1
  s2 = s2
  a = a
  NoSession = NoSession
  Session <- TwoSessions
  SubId <- OneId
  MaxRecords = 3
  MaxBytes = 3
  LineSizes = {1, 2}
  ChanCap = 1
  MaxSeq = 5
  MaxFaults = 1
INVARIANTS
  
  NothingMissed
  RegisteredIsServed
PROPERTIES
  ClosedStreamsEnd
