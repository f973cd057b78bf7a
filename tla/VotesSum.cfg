\* Eight votes.
SPECIFICATION Spec
CONSTANTS
  None = None
  Payloads <- MCPayloads
  Families = {"wrapping"}
  Indices = {0}
  Outcomes = {TRUE, FALSE}
INVARIANTS
  VotesSumTo100
CHECK_DEADLOCK FALSE
