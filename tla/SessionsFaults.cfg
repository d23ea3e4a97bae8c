SPECIFICATION FairSpec
CONSTANTS
  Calls = {t1, t2, t3, t4}
  Faulty = {t1, t2, t3, t4}
  Users = {u1}
  AccessLife = 1
  InactivityLimit = 1
  HardCap = 2
  MaxNow = 0
  NoRow = NoRow
INVARIANTS
  LockedOutOnlyByRaceOrLoss
PROPERTIES
  SpentTokenIsDead
  CallsReturn
CHECK_DEADLOCK FALSE
