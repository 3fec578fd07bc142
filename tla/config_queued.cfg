SPECIFICATION FairSpec
CONSTANTS
  routing = routing
  inbox = inbox
  muted = muted
  r1 = r1
  r2 = r2
  r3 = r3
  Slot = {inbox}
  Private = {}
  Manual = {inbox}
  Merged = {}
  Repaired = {inbox}
  Relay = {r1, r2}
  MaxRank = 2
  MaxEdits = 2
  MaxEvents = 1
CHECK_DEADLOCK FALSE
INVARIANTS
  ReceiptsAreForTheEvent
PROPERTIES
  CacheNeverRegresses
  LeavesWhenDone
  OutboxDrains
