SPECIFICATION FairSpec
CONSTANTS
  Requests = {r1, r2}
  Capacity = 1
  QueueMax = 1
  MaxFindingsPerRequest = 0
  MaxFindingsPerCall = 0
  DeepEnabled = TRUE
  DeepReview = FALSE
  AdmissionWait = FALSE
  Found <- OnePlain
  Failures = {"none"}
  Claims = {}
  Fresh = {}
  MaxWindows = 1
INVARIANT SlotsMatchStages
PROPERTY EveryRequestAnswered
