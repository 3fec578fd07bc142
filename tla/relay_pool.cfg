SPECIFICATION FairSpec
CONSTANTS
  a = a
  b = b
  s = s
  q1 = q1
  q2 = q2
  Url = {a, b}
  Live = {s}
  Query = {q1, q2}
  UrlsOf <- Relays
  WithSigner = {s, q1}
  Limit = 1
  Hint = {"unknown"}
  MaxEvents = 2
CHECK_DEADLOCK FALSE
INVARIANTS
  DemandHasPlan
  NothingOutlivesOwner
  SlotsAreUsed
  EndsOnce
PROPERTIES
  QueriesEnd
