SPECIFICATION Spec
CONSTANTS
  Request = {r1, r2, r3, r4}
  Value = {v1, v2}
  Unlucky = {r1, r2, r3, r4}
  NoRequest = NoRequest
  NoValue = NoValue
  NoRow = NoRow
  NoAccount = NoAccount
  NoJob = NoJob
SYMMETRY Alike
INVARIANTS TypeOK RegisteredOnce StrandedOnlyByFailure LoginIsRegular LastEditStands
CHECK_DEADLOCK FALSE
