SPECIFICATION Spec
CONSTANTS
  alice = alice
  bob = bob
  r1 = r1
  r2 = r2
  m1 = m1
  m2 = m2
  NoSession = NoSession
  NoJob = NoJob
  Account = {alice, bob}
  Person = {alice, bob}
  Message = {m1, m2}
  Owner <- TwoOwners
  Participants <- ToOwner
  Durable = {m1}
  Relay = {r1, r2}
  RelayLists = {{r1}, {r1, r2}}
  MaxJobs = 2
  MaxEvents = 2
  MaxFaults = 1
  SettleFaults = TRUE
CHECK_DEADLOCK FALSE
PROPERTIES
  JobsFinishInOrder
  LedgerSpec
