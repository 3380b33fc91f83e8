SPECIFICATION StoreSafety
CONSTANTS
  Request = {r1, r2, r3, r4}
  Column = {c1}
  Value = {v0, v1}
  Default = v0
  Unlucky = {r1, r2, r3, r4}
  NoRequest = NoRequest
  NoRow = NoRow
  NoJob = NoJob
SYMMETRY Alike
CHECK_DEADLOCK FALSE
INVARIANTS EntriesAreLedger NoDirtyReads SettingsHaveASource
PROPERTIES CreatedOnce AnswersWhatItCommits ImplementsLedger
