SPECIFICATION FairSpec
CONSTANTS
  Requests = {r1, r2}
  Detectors = {gitleaks, trufflehog}
  InProcess = {gitleaks}
  MaxConcurrentScans = 1
  ScanTimeout = TRUE
INVARIANTS TypeOK PoolAccounted EveryDetectorAccounted EmptyIsExplained
PROPERTIES PoolIsAGate RunReturns
