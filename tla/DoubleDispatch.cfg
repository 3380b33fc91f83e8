SPECIFICATION Safety
CONSTANTS
  Request = {r1, r2}
  Reminder = {m1}
  Text = {old, new}
  OldText = old
  Unlucky = {}
  NoRequest = NoRequest
  NoRow = NoRow
  NoJob = NoJob
INVARIANTS SentOnce
CHECK_DEADLOCK FALSE
