SPECIFICATION PathSpec
CONSTANTS
  a = a
  b = b
  alice = alice
  bob = bob
  Requests = {r1, r2}
  Readers = {q}
  Tasks <- AllCalls
  FaultTasks <- Deliveries
  Freezable = {b}
  MaxDeliver = 1
  MaxCrashes = 1
  Users <- MCUsers
  AccountIds <- MCAccounts
  Accounts <- MCAccounts
  Owner <- MCOwner
  Commands <- PathCommands
SYMMETRY Symmetry
INVARIANTS
  ClientsToldTrue
PROPERTIES
  ReadsOwnWrites
  ImplementsDelivery
CHECK_DEADLOCK FALSE
