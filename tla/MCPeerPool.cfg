SPECIFICATION Spec
CONSTANTS
  UserAmount = 2
  Malicious = 1
  MaliciousType = "EvilBlockProposal"
  NoPool = NoPool
INVARIANTS
  TypeOK
  LostOnlyByRace
  FoundAreRunning
PROPERTIES
  PoolStays
