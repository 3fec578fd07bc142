SPECIFICATION Spec
CONSTANTS
  alice = alice
  bob = bob
  r1 = r1
  r2 = r2
  m1 = m1
  m2 = m2
  NoSession = NoSession
  NoJob = NoJob
  Account = {alice}
  Person = {alice, bob}
  Message = {m1}
  Owner <- OneOwner
  Participants <- ToBoth
  Durable = {m1}
  Relay = {r1}
  RelayLists = {{r1}}
  MaxJobs = 2
  MaxEvents = 1
  MaxFaults = 0
  SettleFaults = FALSE
CHECK_DEADLOCK FALSE
INVARIANTS
  UnfinishedCopyIsQueued
