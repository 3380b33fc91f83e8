SPECIFICATION Spec
CONSTANTS
  c1 = c1
  c2 = c2
  Connection = {c1, c2}
  AcceptLanguage <- Headers
  Other = Other
  NoWeight = NoWeight
  BadWeight = BadWeight
  NoLocale = NoLocale
  NoCode = NoCode
INVARIANTS ErrorsSpeakTheLocale
 
CHECK_DEADLOCK FALSE
