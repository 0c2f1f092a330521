SPECIFICATION Spec
CONSTANTS
  Ids = {"a"}
  R = 2
  MaxRound = 3
  MaxForks = 2
INVARIANTS
  TypeOK
  LinkedUntilFork
  SeedsFound
  CloseOnce
PROPERTIES
  StopQuits
CHECK_DEADLOCK FALSE
