SPECIFICATION Spec
CONSTANTS
  routing = routing
  inbox = inbox
  muted = muted
  r1 = r1
  r2 = r2
  r3 = r3
  Slot = {routing, muted}
  Private = {muted}
  Manual = {routing}
  Merged = {routing}
  Repaired = {}
  Relay = {r1, r2}
  MaxRank = 3
  MaxEdits = 2
  MaxEvents = 2
CONSTRAINT OneSlot
CHECK_DEADLOCK FALSE
SYMMETRY RelaySymmetry
INVARIANTS
  LaterEditsWin
  UnsyncedIsDirty
PROPERTIES
  MergedEditsKeepTheirBase
  RemoteKeepsLocalEdits
