SPECIFICATION PolicySpec
CONSTANTS
  k1 = k1
  k2 = k2
  app = app
  p1 = p1
  Key <- Keys
  Capacity = 1
  Ttl = 0
  MaxId = 2
  MaxNow = 1
  AbsolutePath <- Absolute
  MaxRuleId = 2
  InitialFiles <- Files
  MaxEdits = 1
  exeOf <- ExeOf
  portOf <- PortOf
SYMMETRY KeySymmetry
INVARIANTS
  RuleFollowsFirstAnswer
  VerdictIsBest
PROPERTIES
  AnswersDecide
