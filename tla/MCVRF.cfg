SPECIFICATION Spec
CONSTANTS
  P = 509
  d = 88
  SqrtM1 = 208
  Base <- MCBase
  SignBit = 512
  ScalarBits = 16
  q = 67
  Secrets = {1, 2, 3}
  Nonces = {4, 5, 6}
  Messages = {7, 8, 9}
  Digest <- MCDigest
  Hash <- MCHash
  limit = 12
  MaxProofs = 2
INVARIANTS
  HonestVerifies
  MultsExact
  DecodeExact
CHECK_DEADLOCK FALSE
