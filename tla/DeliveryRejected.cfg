SPECIFICATION Spec
CONSTANTS
  Requests = {r1}
  Refusals <- FewRefusals
  MaxDeliver = 2
  MaxCrashes = 0
INVARIANTS
  RejectedMeansUnapplied
CHECK_DEADLOCK FALSE
