SPECIFICATION Spec
CONSTANTS
  a = a
  b = b
  ghost = ghost
  alice = alice
  bob = bob
  Tasks = {t1, t2, t3}
  FaultTasks = {t1, t2, t3}
  Users <- MCUsers
  AccountIds <- MCAccountIds
  Accounts <- MCAccounts
  Owner <- MCOwner
  Commands <- AllCommands
SYMMETRY Symmetry
INVARIANTS
  TypeOK
  ChainIsGrounded
  DebitsAreOwned
  ServicePromise
  OverdraftOnlyByWriteSkew
  TransferAtomic
  MoneyConserved
  LedgerInv
  BooksInv
PROPERTIES
  AcknowledgedIsVisible
  FreezeTakesEffect
  ImplementsContract
CHECK_DEADLOCK FALSE
