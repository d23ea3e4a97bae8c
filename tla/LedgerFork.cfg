SPECIFICATION Spec
CONSTANTS
  a = a
  b = b
  ghost = ghost
  alice = alice
  bob = bob
  Tasks = {t1, t2}
  FaultTasks = {}
  Users <- MCUsers
  AccountIds <- MCAccountIds
  Accounts <- MCAccounts
  Owner <- MCOwner
  Commands <- RaceCommands
SYMMETRY Symmetry
INVARIANTS
  ChainIsLinear
CHECK_DEADLOCK FALSE
