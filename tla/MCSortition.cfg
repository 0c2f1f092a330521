SPECIFICATION Spec
CONSTANTS
  N = 5
  pn = 2
  pd = 5
  HashMax = 16
  Hashes = {0, 1, 2, 5, 8, 11, 14, 15}
  CoinHash <- MCCoinHash
  CoinStart = 8
  MaxCalls = 3
INVARIANTS
  CDFExact
  SelectedExact
  CoinOrderFree
PROPERTIES
  SubUsersReturns
CHECK_DEADLOCK FALSE
