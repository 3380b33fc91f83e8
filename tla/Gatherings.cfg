SPECIFICATION Spec
CONSTANTS
  Request = {r1, r2, r3}
  Gathering = {g1, g2, g3}
  Limit = 2
  Unlucky = {r1, r2, r3}
  NoRequest = NoRequest
  NoRow = NoRow
  NoJob = NoJob
SYMMETRY Alike
INVARIANTS TypeOK LimitUnlessRaced InviteStableUnlessRaced GuestsAnswered 
PROPERTIES ColumnsKeptApart
CHECK_DEADLOCK FALSE
