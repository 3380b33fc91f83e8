SPECIFICATION SyncSpec
CONSTANTS
  Request = {r1, r2}
  Column = {c1}
  Value = {v0}
  Default = v0
  Unlucky = {r1}
  NoRequest = NoRequest
  NoRow = NoRow
  NoJob = NoJob
  Worker = {w1}
  Client = {a}
  Spelling = {lower}
  Canonical = lower
  FaultyClient = {a}
  CrashWorker = {w1}
  Snapshot = Snapshot
CHECK_DEADLOCK FALSE
PROPERTIES  EveryRequestEnds ClosedLeavesRoom
