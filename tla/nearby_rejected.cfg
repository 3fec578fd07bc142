SPECIFICATION Spec
CONSTANTS
  p1 = p1
  p2 = p2
  m1 = m1
  m2 = m2
  m3 = m3
  Peer = {p1}
  Message = {m1}
  To <- Conversation
  MaxFaults = 0
  MaxRejects = 1
  MaxResends = 1
CHECK_DEADLOCK FALSE
PROPERTIES
  RejectedStaysFailed
