\* Any formatter may fail.  A decided review has no step left.
SPECIFICATION FairSpec
CONSTANTS
  None = None
  Counts = {0, 1, 2, 3}
  MaxPages = 2
  FallibleItems = {0, 1, 2, 3}
  Transactions <- MCTransactions
INVARIANTS
  TypeOK
  OffsetFollowsDisplay
  OfferedAfterAll
  EndsBehindFirst
PROPERTIES
  StepsToNeighbours
  ImplementsFullReview
  RightReachesEnd
CHECK_DEADLOCK FALSE
