SPECIFICATION Spec
CONSTANTS
  Requests = {r1}
  Capacity = 1
  QueueMax = 0
  MaxFindingsPerRequest = 2
  MaxFindingsPerCall = 1
  DeepEnabled = TRUE
  DeepReview = TRUE
  AdmissionWait = TRUE
  Found <- ShortLists
  Failures = {"none", "some", "all"}
  Claims = {v1, v2, x}
  Fresh = {v1, v2}
  MaxWindows = 2
SYMMETRY Symmetric
INVARIANTS TypeOK FailClosed DismissedOnlyWhenDecided NothingLeftUnasked
           CompleteMeansJudged ReportedIsConfirmed SlotsMatchStages
PROPERTY DeepNeverFailsRequest
