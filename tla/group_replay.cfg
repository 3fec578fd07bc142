SPECIFICATION Spec
CONSTANTS
  me = me
  bob = bob
  carol = carol
  Me = me
  Person = {me, bob, carol}
  Histories <- MCHistories
  Last = 4
  GroupCap = 2
  UnreadCap = 2
CONSTRAINT Bounded
CHECK_DEADLOCK FALSE
INVARIANTS
  TailIsNewest
  NewestNameWins
PROPERTIES
  MembershipIsReplay
  AnnouncedWhenShown
  UnreadStaysExact
