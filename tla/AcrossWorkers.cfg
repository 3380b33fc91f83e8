SPECIFICATION SyncSafety
CONSTANTS
  Request = {r1}
  Column = {c1}
  Value = {v0}
  Default = v0
  Unlucky = {}
  NoRequest = NoRequest
  NoRow = NoRow
  NoJob = NoJob
  Worker = {w1, w2}
  Client = {a}
  Spelling = {lower}
  Canonical = lower
  FaultyClient = {}
  CrashWorker = {}
  Snapshot = Snapshot
CHECK_DEADLOCK FALSE
PROPERTIES EveryConnectionHears
