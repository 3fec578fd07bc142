SPECIFICATION FairSpec
CONSTANTS
  p1 = p1
  p2 = p2
  m1 = m1
  m2 = m2
  m3 = m3
  Peer = {p1}
  Message = {m1, m2}
  To <- Conversation
  MaxFaults = 1
  MaxRejects = 1
  MaxResends = 1
CONSTRAINTS
  Ordered
  TwoTroubles
CHECK_DEADLOCK FALSE
INVARIANTS
  NothingIsLost
  InFlightIsOwned
  DeliveredInOrder
PROPERTIES
  JobsFinish
