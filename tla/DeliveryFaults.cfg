SPECIFICATION FairSpec
CONSTANTS
  Requests = {r1}
  Refusals <- AllRefusals
  MaxDeliver = 3
  MaxCrashes = 2
INVARIANTS
  TypeOK
  NothingSettledUnprocessed
  CreatedMeansApplied
  AnswersAreOutcomes
  DeliveryInv
  RepeatedOnlyWhenUnsure
PROPERTIES
  EventuallySettled
CHECK_DEADLOCK FALSE
