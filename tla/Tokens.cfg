SPECIFICATION Spec
CONSTANTS
  Task = {t1, t2}
  Key = {k1, k2}
  JWKS_TTL = 2
  FetchTime = 1
  NoKid = NoKid
SYMMETRY Alike
PROPERTIES AcceptedWasPublished RefusedWasNotPublished
CHECK_DEADLOCK FALSE
