SPECIFICATION FairSpec
CONSTANTS
  s1 = s1
  s2 = s2
  d1 = d1
  d2 = d2
  d3 = d3
  k1 = k1
  k2 = k2
  q1 = q1
  q2 = q2
  q3 = q3
  Source = {s1, s2}
  Doc = {d1, d2, d3}
  Request = {q1, q2}
  Key = {k1, k2}
  SourceOf <- Sources
  Offered = {"reject", "allow", "session", "always"}
  Settings = {"none", "deny"}
  Limit = 2
  MaxTroubles = 1
CONSTRAINT Ordered
CHECK_DEADLOCK FALSE
INVARIANTS
  ReviewsTakeTurns
PROPERTIES
  LatestDecisionCounts
  RequestsSettle
