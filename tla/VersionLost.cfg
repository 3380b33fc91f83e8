SPECIFICATION StoreSafety
CONSTANTS
  Request = {r1, r2}
  Column = {c1}
  Value = {v0, v1}
  Default = v0
  Unlucky = {}
  NoRequest = NoRequest
  NoRow = NoRow
  NoJob = NoJob
PROPERTIES VersionCountsUpdates
CHECK_DEADLOCK FALSE
