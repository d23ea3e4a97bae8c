SPECIFICATION FairSpec
CONSTANTS
  Requests = {c1, c2}
  c1 = c1
  c2 = c2
  alice = alice
  TypeAsked <- OneOfEach
  Input <- OneName
  Resident = Resident
  Nobody = Nobody
  LastSeq = 3
  Numbers = {1, 3}
  NumberOf <- CollidingNumbers
  MaxDeliver = 2
  NoKey = NoKey
INVARIANTS
  TypeOK
  AnswersTrue
  RegisteredReadsBack
  DuplicateOnlyWhenUnsure
PROPERTIES
  EveryRunEnds
CHECK_DEADLOCK FALSE
