SPECIFICATION SyncSpec
CONSTANTS
  n1 = n1
  p1 = p1
  Nodes = {n1, n2, n3, n4}
  Blocks = {b1, b2}
  Parents = {p1}
  Last <- OneChain
  ParentOf <- OneParent
  Kind <- AllHonest
  Weight <- HeavyWeight
  Threshold = 3
  FinalThreshold = 3
  MAXSTEPS = 4
  SlowCalls = {3}
  NoHash = NoHash
PROPERTIES
  Termination
CHECK_DEADLOCK FALSE
