SPECIFICATION Spec
CONSTANTS
  p1 = p1
  p2 = p2
  p3 = p3
  p4 = p4
  Others = {p1, p2, p3, p4}
  Own = Own
  Prior <- MCPrior
  BlockOf <- MCBlockOf
  Valid <- MCValid
  Type = "BLOCK_PROPOSAL"
  NoProposal = NoProposal
  NoBlock = NoBlock
  Empty = Empty
INVARIANTS
  TypeOK
  HighestUnlessRaced
  BlockVerified
PROPERTIES
  OnlyUp
CHECK_DEADLOCK FALSE
