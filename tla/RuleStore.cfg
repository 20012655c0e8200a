SPECIFICATION StoreSpec
CONSTANTS
  app = app
  rel = rel
  p1 = p1
  d1 = d1
  d2 = d2
  Idle = Idle
  Exe <- Exes
  AbsolutePath <- Absolute
  Port <- Ports
  Pid <- Daemons
  MaxRuleId = 1
INVARIANTS
  StoreConsistent
  AckedSurvives
  DriftIsReported
