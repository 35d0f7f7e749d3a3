SPECIFICATION FairSpec
CONSTANTS
  Conns = {c1, c2}
  HostListener = TRUE
INVARIANTS
  NothingLostInTime
  AllClosed
PROPERTIES
  SignalEnds
CHECK_DEADLOCK FALSE
