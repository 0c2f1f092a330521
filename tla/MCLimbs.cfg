SPECIFICATION Spec
CONSTANTS
  Limbs = 2
  Wide = 13
  ByteBits = 4
  ScLimbs = 4
  ScWide = 6
  ScByteBits = 5
  ScBytes = 5
  Mu <- MCMu
  FieldInputs <- MCFieldInputs
  ScalarInputs <- MCScalarInputs
  ChainModuli <- MCChainModuli
  MaxCalls = 3
  MaxWeight = 3
INVARIANTS LimbsExact BytesExact LimbsBounded ScalarExact ChainsExact
CHECK_DEADLOCK FALSE
