SPECIFICATION FairSpec
CONSTANTS
  Callers = {g1, g2, g3}
  MaxInflight = 1
  QueueMax = 2
  TimedWait = TRUE
PROPERTIES GateSpec TryAcquireAnswers RejectedOnlyUnderLoad
INVARIANTS SlotsAccounted DepthAccounted GivingBackNeverBlocks
