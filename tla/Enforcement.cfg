SPECIFICATION EnfSpec
CONSTANTS
  u1 = u1
  u2 = u2
  i1 = i1
  i2 = i2
  Uid <- TwoUsers
  Ipc <- TwoIpc
  Scenarios <- SomeScenarios
  MaxTable = 2
SYMMETRY EqualIpc
INVARIANTS
  
  MemoryMatchesFiles
  

  
  
CHECK_DEADLOCK FALSE
