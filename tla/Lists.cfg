SPECIFICATION Spec
CONSTANTS
  Request = {r1, r2, r3}
  Thing = {t1, t2}
  Column = {c1, c2}
  Unlucky = {r1, r2, r3}
  NoRequest = NoRequest
  OldMenu = OldMenu
  NoMenu = NoMenu
  NoThing = NoThing
  NoRow = NoRow
  NoJob = NoJob
SYMMETRY Alike
CHECK_DEADLOCK FALSE
INVARIANTS TypeOK MenusOnlyRaced ListsAreCurrent LastEditStands
