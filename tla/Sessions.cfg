SPECIFICATION Spec
CONSTANTS
  Calls = {t1, t2, t3, t4}
  Faulty = {}
  Users = {u1, u2}
  AccessLife = 1
  InactivityLimit = 1
  HardCap = 2
  MaxNow = 3
  NoRow = NoRow
SYMMETRY Symmetry
INVARIANTS
  TypeOK
  ActsForOwner
PROPERTIES
  SpentTokenIsDead
  SessionEndsForGood
CHECK_DEADLOCK FALSE
