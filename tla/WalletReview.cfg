\* Any formatter and any drawing call may fail.  A decided review has no step left.
SPECIFICATION Spec
CONSTANTS
  None = None
  Summary = Summary
  Bars = 2
  ByteMax = 15
  MaxCount = 7
  Failing = "anything"
  Transactions <- MCTransactions
  Outcomes = {TRUE, FALSE}
INVARIANTS
  TypeOK
  TableShowsItsPage
  DetailsShowTapped
  RowsCoverRecords
  OfferedWhenComplete
PROPERTIES
  ImplementsFullReview
CHECK_DEADLOCK FALSE
