\* A recipient's address may fail.
SPECIFICATION Spec
CONSTANTS
  None = None
  Summary = Summary
  Bars = 2
  ByteMax = 15
  MaxCount = 1
  Failing = "recipients"
  Transactions <- MCTransactions
  Outcomes = {TRUE}
INVARIANTS
  RecordPairDisplayed
CHECK_DEADLOCK FALSE
