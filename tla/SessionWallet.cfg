\* A Stax or Flex: one fault, failing cryptography, three chunks; a user who
\* eventually decides.
SPECIFICATION FairSpec
CONSTANTS
  p1 = p1
  n1 = n1
  n2 = n2
  a = a
  b = b
  big = big
  empty = empty
  NoPath = NoPath
  BadPath = BadPath
  None = None
  Paths = {p1}
  Networks = {n1}
  Chunks = {a, b, big, empty}
  Size <- MCSize
  TxLenMax = 2
  P1Max = 3
  TxPayloads <- MCTxPayloads
  MsgPayloads <- MCMsgPayloads
  Wallet = TRUE
  CryptoOutcomes = {TRUE, FALSE}
  MaxFaults = 1
INVARIANTS
  TypeOK
  UnansweredIffReviewing
  ReviewMatchesContext
  EveryChunkOnce
  PayloadFits
  LengthIsSum
  SignedWasShown
  ReleasedWasVerified
  AnswerMatchesCommand
  ReleaseClearsContext
  UnionNotMixed
PROPERTIES
  CommandAnswered
