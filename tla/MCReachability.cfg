SPECIFICATION FairSpec
CONSTANTS
  Interval = 4
  MaxProbe = 3
  MaxPause = 1
INVARIANTS
  UpIsNoticed
  DownIsNoticed
  WedgedIsNoticed
PROPERTIES
  StopReturns
CHECK_DEADLOCK FALSE
