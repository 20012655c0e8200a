SPECIFICATION FairSpec
CONSTANTS
  c1 = c1
  c2 = c2
  c3 = c3
  d1 = d1
  d2 = d2
  Idle = Idle
  Conn <- ThreeConns
  Dest <- Dests
  dest <- SharedDest
  Capacity = 1
  Ttl = 0
  RingCapacity = 1
  MaxAttempts = 2
  MaxSyn = 2
  MaxNow = 1
INVARIANTS
  TableConsistent
  AcceptsBacked
  AloneFollowsOwnDecision
PROPERTIES
  AcceptedWhileFresh
  LookupGivesUp
CHECK_DEADLOCK FALSE
