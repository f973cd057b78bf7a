\* Nothing fails but a recipient that is too long.
SPECIFICATION Spec
CONSTANTS
  None = None
  Summary = Summary
  Bars = 2
  ByteMax = 15
  MaxCount = 1
  Failing = "nothing"
  Transactions <- MCTransactions
  Outcomes = {TRUE}
INVARIANTS
  GracefullyRejected
CHECK_DEADLOCK FALSE
