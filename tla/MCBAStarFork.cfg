SPECIFICATION Spec
CONSTANTS
  n1 = n1
  n2 = n2
  n3 = n3
  n4 = n4
  b2 = b2
  p1 = p1
  p2 = p2
  Nodes = {n1, n2, n3, n4}
  Blocks = {b1, b2}
  Parents = {p1, p2}
  Last <- Fork
  ParentOf <- ForkParent
  Kind <- AllHonest
  Weight <- LightWeight
  Threshold = 4
  FinalThreshold = 4
  MAXSTEPS = 2
  NoHash = NoHash
SYMMETRY ForkSymmetry
INVARIANTS
  OwnChain
CHECK_DEADLOCK FALSE
