\* Damaged payloads.
SPECIFICATION Spec
CONSTANTS
  None = None
  Payloads <- MCPayloads
  Families = {"damaged"}
  Indices = {0}
  Outcomes = {TRUE, FALSE}
INVARIANTS
  AcceptedIsConsumed
CHECK_DEADLOCK FALSE
