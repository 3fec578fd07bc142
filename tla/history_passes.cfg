SPECIFICATION FairSpec
CONSTANTS
  r1 = r1
  r2 = r2
  w1 = w1
  w2 = w2
  w3 = w3
  Relay = {r1, r2}
  Wrap = {w1, w2, w3}
  PageSize = 2
  Overlap = 1
  MaxTime = 3
  MaxEvents = 1
CONSTRAINT Bounded
CHECK_DEADLOCK FALSE
INVARIANTS
  TypeOK
  NothingForgotten
  CheckpointIsRead
  CoverageIsRead
PROPERTIES
  HistoryCompletes
