SPECIFICATION Spec
CONSTANTS
  Request = {r1, r2, r3}
  Reminder = {m1}
  Text = {old, new}
  OldText = old
  Unlucky = {r1, r2}
  NoRequest = NoRequest
  NoRow = NoRow
  NoJob = NoJob
CHECK_DEADLOCK FALSE
INVARIANTS TypeOK SentWasAttempted RetryIsSilent
PROPERTIES EventShowsTheRow ColumnsKeptApart NoEventAfterDelete EveryRequestEnds
