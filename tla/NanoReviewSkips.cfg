\* A transfer of two payments: recipient, amount, recipient, amount.  The hash in
\* the second recipient's address may fail.
SPECIFICATION Spec
CONSTANTS
  None = None
  Counts = {4}
  MaxPages = 1
  FallibleItems = {2}
  Transactions <- MCTransactions
INVARIANTS
  MemoBeforeApproval
CHECK_DEADLOCK FALSE
