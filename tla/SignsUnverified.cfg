\* One fault during a review.
SPECIFICATION Spec
CONSTANTS
  p1 = p1
  n1 = n1
  n2 = n2
  a = a
  b = b
  big = big
  empty = empty
  NoPath = NoPath
  BadPath = BadPath
  None = None
  Paths = {p1}
  Networks = {n1, n2}
  Chunks = {a, b, big, empty}
  Size <- MCSize
  TxLenMax = 2
  P1Max = 2
  TxPayloads <- MCTxPayloads
  MsgPayloads <- MCMsgPayloads
  Wallet = TRUE
  CryptoOutcomes = {TRUE}
  MaxFaults = 1
INVARIANTS
  SignsOnlyVerified
