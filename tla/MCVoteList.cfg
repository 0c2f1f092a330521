SPECIFICATION Spec
CONSTANTS
  a1 = a1
  a2 = a2
  b1 = b1
  c1 = c1
  Votes = {a1, a2, b1, c1}
  Voter <- MCVoter
  HashOf <- MCHashOf
  Weight <- MCWeight
  Threshold = 2
  MaxCalls = 2
  NoList = NoList
  Timeout = Timeout
INVARIANTS
  TypeOK
  CountExact
  RecountSame
PROPERTIES
  CalmStays
CHECK_DEADLOCK FALSE
