\* Hashes may fail.  A refused payload has no step left.
SPECIFICATION Spec
CONSTANTS
  None = None
  Payloads <- MCPayloads
  Families = {"votes", "wrapping", "transfers", "burns", "hashes", "memos", "messages", "damaged"}
  Indices = {0, 1, 2, 3, 4, 5, 6, 15, 16, 104, 105, 106, 252, 253, 254, 255}
  Outcomes = {TRUE, FALSE}
INVARIANTS
  TypeOK
  CursorInside
  RecordsFillPayload
  SearchRetracesParser
  FitsTheReviews
  EveryPartShown
  AcceptsTheLegal
  AcceptedIsSerialised
  ReceivesWhatWasSent
  ShowsWhatWasSent
  DisplayedTextIsMessage
CHECK_DEADLOCK FALSE
