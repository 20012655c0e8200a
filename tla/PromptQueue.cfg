SPECIFICATION FairSpec
CONSTANTS
  k1 = k1
  k2 = k2
  k3 = k3
  Key <- ThreeKeys
  Capacity = 1
  Ttl = 0
  MaxId = 3
  MaxNow = 1
INVARIANTS
  QueueConsistent
  OnceMeansOnce
PROPERTIES
  AnswersFinal
  ImplementsConsent
  OverdueExpires
