SPECIFICATION SyncSafety
CONSTANTS
  Request = {r1, r2}
  Column = {c1}
  Value = {v0}
  Default = v0
  Unlucky = {}
  NoRequest = NoRequest
  NoRow = NoRow
  NoJob = NoJob
  Worker = {w1}
  Client = {a, b}
  Spelling = {lower}
  Canonical = lower
  FaultyClient = {}
  CrashWorker = {}
  Snapshot = Snapshot
CHECK_DEADLOCK FALSE
SYMMETRY Alike
INVARIANTS SyncTypeOK BroadcastsDoNotOverlap RoomsAreLiveHandlers 
 
